---- MODULE Spec2Model ----
(***************************************************************************)
(* Model of the PSP controller relay server                                *)
(* (src/server/psp_controller_server.py) and of the screen streamer it     *)
(* drives (src/server/screen_streamer.py).                                 *)
(*                                                                         *)
(* One action per dispatched message type (PSPControllerServer.            *)
(* handle_command), one for the accept of a connection, one for the        *)
(* handler's finally block, and the steps of the threads the streamer      *)
(* starts: the portal's readiness callback and the capture loop.           *)
(***************************************************************************)
EXTENDS Integers, Sequences, FiniteSets, TLC

(* ---------------------------- bounds ----------------------------------- *)
NumConns == 2
MaxFrames == 1
MaxThreads == 1
MaxDown == 2
MaxChunk == 3
MaxRecv == 4
MaxTimeouts == 2
MaxLoops == 2
max_history == 2
NumViewers == 2

(* ----------------------- program constants ----------------------------- *)
None == 0
DefaultWidth == 1920
DefaultHeight == 1080
\* 2.75, in hundredths
DefaultDensity == 275
DefaultStreamWidth == 720
DefaultStreamHeight == 1280
DefaultStreamFps == 30
DefaultStreamQuality == 60
StreamPortOffset == 1
\* 0.3, in tenths
AnalogThreshold == 3

Conn == 1..NumConns

\* dict.get(key, default) on a decoded message
Get(command, key, default) ==
  IF key \in DOMAIN command THEN command[key] ELSE default

(* ------------------------- message values ------------------------------ *)
\* control settings and layouts carried by the layout messages
SettingsA == [x |-> 1, y |-> 2, scale |-> 1, opacity |-> 1, visible |-> TRUE]
SettingsB == [x |-> 3, y |-> 4, scale |-> 2, opacity |-> 0, visible |-> FALSE]
EmptyLayout == [k \in {} |-> SettingsA]
LayoutA == [k \in {"dpad"} |-> SettingsA]
LayoutB == [k \in {"dpad", "x"} |-> IF k = "dpad" THEN SettingsB ELSE SettingsA]
Layouts == {EmptyLayout, LayoutA, LayoutB}

\* the attribute-not-set marker of hasattr(self, 'current_layout')
NoLayout == [k \in {"unset"} |-> SettingsA]

SetLayoutCmds ==
  {[type |-> "set_layout"]} \cup {[type |-> "set_layout", layout |-> L] : L \in Layouts}
CurrentLayoutCmds ==
  {[type |-> "current_layout"], [type |-> "current_layout", controls |-> LayoutA]}
LayoutUpdateCmds ==
  {[type |-> "layout_update"], [type |-> "layout_update", layout |-> LayoutB]}
LayoutPreviewCmds ==
  {[type |-> "layout_preview", control |-> "dpad", x |-> 1, y |-> 2],
   [type |-> "layout_preview", control |-> "x", scale |-> 2]}
DeviceInfoCmds ==
  {[type |-> "device_info"],
   [type |-> "device_info", width |-> 800],
   [type |-> "device_info", width |-> 1280, height |-> 720, density |-> 200]}
RequestStreamCmds ==
  {[type |-> "request_stream"],
   [type |-> "request_stream", width |-> 480, height |-> 800, fps |-> 15, quality |-> 40]}

NoParams == [width |-> 0, height |-> 0]
NoDeviceInfo == [width |-> 0, height |-> 0, density |-> 0]
NoResponse == [type |-> "none"]
NoCommand == [type |-> "none"]
\* the environment's answers to an operation: the streaming port could be
\* bound, the portal capture started, the network accepted the write
NoEnv == [bindOk |-> TRUE, portalOk |-> TRUE, netOk |-> TRUE]

(* ------------------------------ state ---------------------------------- *)
VARIABLES
  sock,                   \* per connection: "new", "open" (accepted), "closed"
  clients,                \* PSPControllerServer.clients
  android_client,         \* PSPControllerServer.android_client
  device_info,            \* PSPControllerServer.device_info
  current_layout,         \* PSPControllerServer.current_layout
  pending_stream_client,  \* PSPControllerServer.pending_stream_client
  pending_stream_params,  \* PSPControllerServer.pending_stream_params
  has_streamer,           \* PSPControllerServer.screen_streamer is not None
  streamer,               \* the ScreenStreamer's fields
  capture_threads,        \* live capture_loop threads, by position
  source_frames,          \* frames the frame source has produced so far
  callback,               \* the portal thread inside _on_stream_ready
  last,                   \* the operation that produced this state
  writes,                 \* the socket writes that operation performed
  requester,              \* sender of the request_stream accepted from Idle,
                          \* None once its disconnect cancelled that request,
                          \* Stopped once a stop_stream was answered
  layout_writer,          \* the message of the most recent writer of current_layout
  device_sender,          \* the latest sender of device_info, the one before,
                          \* and the latest device_info message
  running,                \* PSPControllerServer.running
  server_socket,          \* the control listener: "listening" or "closed"
  stop_pc,                \* the position of stop(): "none", "closed", "released", "exited"
  draining,               \* handlers that still hold a received line after stop
                          \* closed their socket
  keys_down,              \* the keys the injector holds down (xdotool keydown/keyup)
  calls,                  \* the injector calls of the last operation, in order
  thread,                 \* per thread: the code it runs and its position in it
  locks,                  \* per lock: the thread that holds it, or NoThread
  truncated,              \* per control connection: the thread whose message
                          \* was written to it only in part, None while every
                          \* message arrived whole
  reader,                 \* per connection: handle_client's position, its buffer
                          \* and the response it is about to send
  wire,                   \* per connection: the characters received, the lines
                          \* dispatched and the responses sent, in order
  viewer,                 \* per viewer of the stream port: the position of its
                          \* sender thread, its socket, the last frame it got
  stream_clients,         \* ScreenStreamer.clients
  stale_frame,            \* the frame that was in frame_buffer when the streamer
                          \* was last stopped
  editor                  \* the layout editor: the canvas layout, the history
                          \* and its index, the last operation and the layout
                          \* before it

vars == <<sock, clients, android_client, device_info, current_layout, pending_stream_client,
          pending_stream_params, has_streamer, streamer, capture_threads,
          source_frames, callback, last, writes, requester,
          layout_writer, device_sender, running, server_socket, stop_pc,
          draining, keys_down, calls, thread, locks, truncated, reader, wire,
          viewer, stream_clients, stale_frame, editor>>

serverVars == <<android_client, device_info, current_layout>>
streamVars == <<pending_stream_client, pending_stream_params, streamer,
                capture_threads>>
ghostVars == <<requester, layout_writer, device_sender>>
lifeVars == <<running, server_socket, stop_pc, draining>>
threadVars == <<thread, locks, truncated>>
lineVars == <<reader, wire>>
viewerVars == <<viewer, stream_clients, stale_frame>>
editorVars == <<editor>>

\* the threads whose steps are followed one by one: the handler thread of each
\* connection (handle_client), the portal's GLib thread when it runs
\* _on_stream_ready, and the sender thread of a viewer (stream_to_client)
PortalThread == NumConns + 1
ViewerThread == NumConns + 2
Threads == Conn \cup {PortalThread, ViewerThread}
NoThread == None

\* PSPControllerServer.clients_lock, ScreenStreamer.clients_lock and
\* ScreenStreamer.frame_lock
Locks == {"clients_lock", "streamer_clients_lock", "frame_lock"}

\* a thread that runs none of the code followed here, and a handler thread
\* that does not exist (its connection is not accepted, or it has ended)
IdleThread == [prog |-> "idle", pc |-> 0, blocked |-> None]
NoHandler == [prog |-> "closed", pc |-> 0, blocked |-> None]

ThreadsInit ==
  /\ thread = [t \in Threads |->
                IF t \in Conn /\ sock[t] # "open" THEN NoHandler
                ELSE IdleThread]
  /\ locks = [l \in Locks |-> NoThread]
  /\ truncated = [c \in Conn |-> None]

\* The layout editor. A layout gives every control its settings; x stands
\* for the position (x and y), scale for the settings of the control panel
\* (scale, opacity, visible); the numbers are percentages. Presets are the
\* layouts of the preset menu: the default and the compact one.
Presets ==
  {[dpad |-> [x |-> 5, scale |-> 100], analog |-> [x |-> 18, scale |-> 100]],
   [dpad |-> [x |-> 2, scale |-> 80], analog |-> [x |-> 12, scale |-> 80]]}

\* LayoutEditorCanvas.__init__ and LayoutEditorWindow.__init__: the default
\* layout and an empty history
EditorInit ==
  editor = [layout_data |-> [dpad |-> [x |-> 5, scale |-> 100],
                             analog |-> [x |-> 18, scale |-> 100]],
            history |-> <<>>, history_index |-> -1,
            op |-> "init", before |-> <<>>]

\* handle_client before the first recv: the buffer is empty
ReaderInit ==
  /\ reader = [c \in Conn |-> [pc |-> "recv", buffer |-> <<>>,
                                response |-> NoResponse,
                                timeouts |-> 0, held |-> <<>>]]
  /\ wire = [c \in Conn |-> [arrived |-> <<>>, dispatched |-> <<>>,
                              responses |-> <<>>]]

(* --------------------------- ScreenStreamer ---------------------------- *)
\* ScreenStreamer.__init__
StreamerInit(method) ==
  [streaming |-> FALSE,
   listening |-> FALSE,
   target_width |-> DefaultStreamWidth,
   target_height |-> DefaultStreamHeight,
   fps |-> DefaultStreamFps,
   quality |-> DefaultStreamQuality,
   capture_method |-> method,
   portal |-> "none",
   frame_buffer |-> None]

\* The states of §4.4, read off the streamer: streaming is set by start and
\* reset by stop; the readiness signal has fired when the portal is ready,
\* and fires inside start for every other capture method.
StreamState ==
  IF ~streamer.streaming THEN "Idle"
  ELSE IF streamer.capture_method = "portal" /\ streamer.portal # "ready"
       THEN "Starting"
       ELSE "Streaming"

\* PortalScreenCapture.stop, on the portal_capture object if there is one
PortalStop(p) == IF p = "none" THEN "none" ELSE "stopped"

\* ScreenStreamer.stop
StreamerStop(s) ==
  IF ~s.streaming THEN s
  ELSE [s EXCEPT !.streaming = FALSE,
                 !.portal = PortalStop(s.portal),
                 !.listening = FALSE]

\* the connections to the stream port
Viewers == 1..NumViewers

\* a viewer that has not connected
NoViewer == [pc |-> "none", open |-> FALSE, failed |-> FALSE, last |-> None]

ViewersInit ==
  /\ viewer = [v \in Viewers |-> NoViewer]
  /\ stream_clients = {}
  /\ stale_frame = None

\* ScreenStreamer.stop, on the viewers: every socket in clients is closed and
\* the list is cleared
ViewersAfterStop(s) ==
  IF ~s.streaming THEN viewer
  ELSE [v \in Viewers |-> IF v \in stream_clients
                          THEN [viewer[v] EXCEPT !.open = FALSE]
                          ELSE viewer[v]]

ClientsAfterStop(s) == IF ~s.streaming THEN stream_clients ELSE {}

\* ScreenStreamer.stop assigns nothing to frame_buffer: the frame in it stays
StaleAfterStop(s) == IF ~s.streaming THEN stale_frame ELSE s.frame_buffer

\* a socket write: delivered when the socket is open and the network accepts it
Send(to, kind, msg, netOk) ==
  IF to # None /\ sock[to] = "open" /\ netOk
  THEN <<[to |-> to, kind |-> kind, msg |-> msg]>>
  ELSE <<>>

Ack(success) == [type |-> "ack", success |-> success]

StreamStart(params) ==
  [type |-> "stream_start", port |-> StreamPortOffset,
   width |-> params.width, height |-> params.height]

\* what the last operation was, with the stream state it started from and
\* whether its connection was the pending requester then
OpEnv(op, c, command, resp, env) ==
  [op |-> op, conn |-> c, cmd |-> command, resp |-> resp, env |-> env,
   pre |-> StreamState, own |-> c # None /\ pending_stream_client = c]

Op(op, c, command, resp) == OpEnv(op, c, command, resp, NoEnv)

\* a step of a thread that serves no connection
Step(op) ==
  [op |-> op, conn |-> None, cmd |-> NoCommand, resp |-> NoResponse,
   env |-> NoEnv, pre |-> "none", own |-> FALSE]

\* the handler's write of the response (handle_client)
Respond(c, resp) ==
  IF resp = NoResponse THEN <<>>
  ELSE <<[to |-> c, kind |-> "response", msg |-> resp]>>

(* ------------------------------ Init ----------------------------------- *)
Init ==
  /\ sock = [c \in Conn |-> "new"]
  /\ clients = {}
  /\ android_client = None
  /\ device_info = NoDeviceInfo
  /\ current_layout = NoLayout
  /\ pending_stream_client = None
  /\ pending_stream_params = NoParams
  /\ has_streamer \in BOOLEAN
  /\ \E m \in {"portal", "mss"} : streamer = StreamerInit(m)
  /\ capture_threads = [check |-> 0, body |-> 0]
  /\ source_frames = 0
  /\ callback = [pc |-> "idle", params |-> NoParams]
  /\ last = Step("init")
  /\ writes = <<>>
  /\ requester = None
  /\ layout_writer = NoCommand
  /\ device_sender = [latest |-> None, earlier |-> None, cmd |-> NoCommand]
  /\ running = TRUE
  /\ server_socket = "listening"
  /\ stop_pc = "none"
  /\ draining = {}
  /\ keys_down = {}
  /\ calls = <<>>
  /\ ThreadsInit
  /\ ReaderInit
  /\ ViewersInit
  /\ EditorInit

(* --------------------- connection lifecycle ---------------------------- *)
\* PSPControllerServer.start accept loop + handle_client's registration;
\* connections are numbered in the order they are accepted
Connect(c) ==
  /\ running
  /\ sock[c] = "new"
  /\ \A d \in Conn : d < c => sock[d] # "new"
  /\ sock' = [sock EXCEPT ![c] = "open"]
  /\ clients' = clients \cup {c}
  /\ last' = Op("connect", c, NoCommand, NoResponse)
  /\ writes' = <<>>
  /\ UNCHANGED <<serverVars, streamVars, has_streamer, source_frames, callback,
                 ghostVars>>
  /\ calls' = <<>>
  /\ UNCHANGED <<lifeVars, keys_down, threadVars, lineVars, editorVars, viewerVars>>

\* variant: the cleanup tests the primary connection instead of the requester
DisconnectStops_PrimaryOnly(c) == android_client = c

\* the condition of the finally block's stream cleanup (handle_client)
DisconnectStops(c) ==
  pending_stream_client = c \/ (has_streamer /\ streamer.streaming)

\* handle_client's finally block: the handler of c ends on EOF, on a read or
\* write error, or when its socket is closed
Disconnect(c) ==
  /\ sock[c] = "open"
  /\ LET stops == DisconnectStops(c) IN
       /\ streamer' = IF stops /\ has_streamer THEN StreamerStop(streamer)
                      ELSE streamer
       /\ pending_stream_client' = IF stops THEN None ELSE pending_stream_client
       /\ pending_stream_params' = IF stops THEN NoParams ELSE pending_stream_params
  /\ clients' = clients \ {c}
  /\ sock' = [sock EXCEPT ![c] = "closed"]
  /\ requester' = IF pending_stream_client = c /\ StreamState = "Starting"
                  THEN None ELSE requester
  /\ last' = Op("disconnect", c, NoCommand, NoResponse)
  /\ writes' = <<>>
  /\ UNCHANGED <<serverVars, has_streamer, capture_threads, source_frames,
                 callback, layout_writer, device_sender>>
  /\ calls' = <<>>
  /\ viewer' = IF DisconnectStops(c) /\ has_streamer
               THEN ViewersAfterStop(streamer) ELSE viewer
  /\ stream_clients' = IF DisconnectStops(c) /\ has_streamer
                       THEN ClientsAfterStop(streamer) ELSE stream_clients
  /\ stale_frame' = IF DisconnectStops(c) /\ has_streamer
                    THEN StaleAfterStop(streamer) ELSE stale_frame
  /\ UNCHANGED <<lifeVars, keys_down, threadVars, lineVars, editorVars>>

(* ------------------- handle_command: layout editor --------------------- *)
\* variant: the first device_info sender stays the primary
PrimaryAfterDeviceInfo_FirstWins(client_socket) ==
  IF android_client # None THEN android_client ELSE client_socket

\* the primary after a device_info from client_socket
PrimaryAfterDeviceInfo(client_socket) ==
  IF client_socket # None THEN client_socket ELSE android_client

\* variant: a field missing from the message keeps its stored value
DeviceInfoOf_Merge(command) ==
  IF device_info = NoDeviceInfo
  THEN [width |-> Get(command, "width", DefaultWidth),
        height |-> Get(command, "height", DefaultHeight),
        density |-> Get(command, "density", DefaultDensity)]
  ELSE [width |-> Get(command, "width", device_info.width),
        height |-> Get(command, "height", device_info.height),
        density |-> Get(command, "density", device_info.density)]

\* the stored device info of a device_info message
DeviceInfoOf(command) ==
  [width |-> Get(command, "width", DefaultWidth),
   height |-> Get(command, "height", DefaultHeight),
   density |-> Get(command, "density", DefaultDensity)]

DeviceInfo(c, command) ==
  /\ sock[c] = "open"
  /\ device_info' = DeviceInfoOf(command)
  /\ android_client' = PrimaryAfterDeviceInfo(c)
  /\ device_sender' = IF device_sender.latest = c
                       THEN [device_sender EXCEPT !.cmd = command]
                       ELSE [latest |-> c, earlier |-> device_sender.latest,
                             cmd |-> command]
  /\ last' = Op("device_info", c, command, Ack(TRUE))
  /\ writes' = Respond(c, Ack(TRUE))
  /\ UNCHANGED <<sock, clients, current_layout, streamVars, has_streamer,
                 source_frames, callback, requester, layout_writer>>
  /\ calls' = <<>>
  /\ UNCHANGED <<lifeVars, keys_down, threadVars, lineVars, editorVars, viewerVars>>

\* the response of get_layout
GetLayoutResponse ==
  IF current_layout # NoLayout
  THEN [type |-> "layout", controls |-> current_layout]
  ELSE [type |-> "layout", controls |-> EmptyLayout]

GetLayout(c) ==
  /\ sock[c] = "open"
  /\ last' = Op("get_layout", c, [type |-> "get_layout"], GetLayoutResponse)
  /\ writes' = Respond(c, GetLayoutResponse)
  /\ UNCHANGED <<sock, clients, serverVars, streamVars, has_streamer,
                 source_frames, callback, ghostVars>>
  /\ calls' = <<>>
  /\ UNCHANGED <<lifeVars, keys_down, threadVars, lineVars, editorVars, viewerVars>>

\* current_layout: the phone's layout, sent on connect
CurrentLayout(c, command) ==
  /\ sock[c] = "open"
  /\ current_layout' = Get(command, "controls", EmptyLayout)
  /\ layout_writer' = command
  /\ last' = Op("current_layout", c, command, Ack(TRUE))
  /\ writes' = Respond(c, Ack(TRUE))
  /\ UNCHANGED <<sock, clients, android_client, device_info, streamVars,
                 has_streamer, source_frames, callback, requester,
                 device_sender>>
  /\ calls' = <<>>
  /\ UNCHANGED <<lifeVars, keys_down, threadVars, lineVars, editorVars, viewerVars>>

LayoutUpdate(c, command) ==
  /\ sock[c] = "open"
  /\ current_layout' = Get(command, "layout", EmptyLayout)
  /\ layout_writer' = command
  /\ last' = Op("layout_update", c, command, Ack(TRUE))
  /\ writes' = Respond(c, Ack(TRUE))
  /\ UNCHANGED <<sock, clients, android_client, device_info, streamVars,
                 has_streamer, source_frames, callback, requester,
                 device_sender>>
  /\ calls' = <<>>
  /\ UNCHANGED <<lifeVars, keys_down, threadVars, lineVars, editorVars, viewerVars>>

\* variant: only the type and the control name are forwarded
ForwardPreview_Partial(command, netOk) ==
  IF android_client # None
  THEN Send(android_client, "forward",
            [type |-> command.type, control |-> command.control], netOk)
  ELSE <<>>

\* the forwarding write of layout_preview: the decoded message, re-encoded
ForwardPreview(command, netOk) ==
  IF android_client # None
  THEN Send(android_client, "forward", command, netOk)
  ELSE <<>>

LayoutPreview(c, command, netOk) ==
  /\ sock[c] = "open"
  /\ last' = OpEnv("layout_preview", c, command, Ack(TRUE),
                   [NoEnv EXCEPT !.netOk = netOk])
  /\ writes' = ForwardPreview(command, netOk) \o Respond(c, Ack(TRUE))
  /\ UNCHANGED <<sock, clients, serverVars, streamVars, has_streamer,
                 source_frames, callback, ghostVars>>
  /\ calls' = <<>>
  /\ UNCHANGED <<lifeVars, keys_down, threadVars, lineVars, editorVars, viewerVars>>

\* variant: set_layout reads the key current_layout uses
LayoutOf_WrongKey(command) == Get(command, "controls", EmptyLayout)

\* the layout a set_layout stores
LayoutOf(command) == Get(command, "layout", EmptyLayout)

\* variant: the forward goes to some open connection, not to the primary
ForwardSetLayout_AnyOpen(layout, netOk) ==
  IF android_client # None /\ \E c \in Conn : sock[c] = "open"
  THEN Send(CHOOSE c \in Conn : sock[c] = "open", "forward",
            [type |-> "set_layout", layout |-> layout], netOk)
  ELSE <<>>

\* the forwarding write of set_layout
ForwardSetLayout(layout, netOk) ==
  IF android_client # None
  THEN Send(android_client, "forward",
            [type |-> "set_layout", layout |-> layout], netOk)
  ELSE <<>>

SetLayout(c, command, netOk) ==
  /\ sock[c] = "open"
  /\ current_layout' = LayoutOf(command)
  /\ layout_writer' = command
  /\ last' = OpEnv("set_layout", c, command, Ack(TRUE),
                   [NoEnv EXCEPT !.netOk = netOk])
  /\ writes' = ForwardSetLayout(LayoutOf(command), netOk) \o Respond(c, Ack(TRUE))
  /\ UNCHANGED <<sock, clients, android_client, device_info, streamVars,
                 has_streamer, source_frames, callback, requester,
                 device_sender>>
  /\ calls' = <<>>
  /\ UNCHANGED <<lifeVars, keys_down, threadVars, lineVars, editorVars, viewerVars>>

(* ------------------- handle_command: screen streaming ------------------ *)
\* the parameters request_stream passes to ScreenStreamer.start
RequestParams(command) ==
  [width |-> Get(command, "width", DefaultStreamWidth),
   height |-> Get(command, "height", DefaultStreamHeight),
   fps |-> Get(command, "fps", DefaultStreamFps),
   quality |-> Get(command, "quality", DefaultStreamQuality)]

\* the pending parameters request_stream records
PendingParams(command) ==
  [width |-> Get(command, "width", DefaultStreamWidth),
   height |-> Get(command, "height", DefaultStreamHeight)]

\* variant: streaming is set before the port is bound, and stays set when
\* the bind fails
StreamerStart_LateFailure(s, p, bindOk, portalOk) ==
  IF s.streaming
  THEN [ok |-> TRUE, s |-> s, ready |-> FALSE, spawned |-> FALSE]
  ELSE LET t == [s EXCEPT !.target_width = p.width, !.target_height = p.height,
                          !.fps = p.fps, !.quality = p.quality,
                          !.streaming = TRUE]
           u == [t EXCEPT !.listening = TRUE]
       IN IF ~bindOk
          THEN [ok |-> FALSE, s |-> t, ready |-> FALSE, spawned |-> FALSE]
          ELSE IF u.capture_method = "portal"
               THEN IF portalOk
                    THEN [ok |-> TRUE, s |-> [u EXCEPT !.portal = "negotiating"],
                          ready |-> FALSE, spawned |-> TRUE]
                    ELSE [ok |-> TRUE,
                          s |-> [u EXCEPT !.portal = "failed",
                                          !.capture_method = "mss"],
                          ready |-> TRUE, spawned |-> TRUE]
               ELSE [ok |-> TRUE, s |-> u, ready |-> TRUE, spawned |-> TRUE]

\* ScreenStreamer.start: its return value (ok), the streamer it leaves,
\* whether on_ready_callback ran inside it (ready) and whether it started
\* the capture and accept threads (spawned).  bindOk: the streaming port
\* could be bound; portalOk: PortalScreenCapture.start returned True.
StreamerStart(s, p, bindOk, portalOk) ==
  IF s.streaming
  THEN [ok |-> TRUE, s |-> s, ready |-> FALSE, spawned |-> FALSE]
  ELSE LET t == [s EXCEPT !.target_width = p.width, !.target_height = p.height,
                          !.fps = p.fps, !.quality = p.quality]
           u == [t EXCEPT !.streaming = TRUE, !.listening = TRUE]
       IN IF ~bindOk
          THEN [ok |-> FALSE, s |-> t, ready |-> FALSE, spawned |-> FALSE]
          ELSE IF u.capture_method = "portal"
               THEN IF portalOk
                    THEN [ok |-> TRUE, s |-> [u EXCEPT !.portal = "negotiating"],
                          ready |-> FALSE, spawned |-> TRUE]
                    ELSE [ok |-> TRUE,
                          s |-> [u EXCEPT !.portal = "failed",
                                          !.capture_method = "mss"],
                          ready |-> TRUE, spawned |-> TRUE]
               ELSE [ok |-> TRUE, s |-> u, ready |-> TRUE, spawned |-> TRUE]

\* the outcomes the environment can give a request_stream: start binds the
\* port only when it is not streaming yet, starts the portal capture only for
\* the portal method, and the callback writes inside start only then
StartRuns == has_streamer /\ ~streamer.streaming
BindOutcomes == IF StartRuns THEN BOOLEAN ELSE {TRUE}
PortalOutcomes(bindOk) ==
  IF StartRuns /\ bindOk /\ streamer.capture_method = "portal"
  THEN BOOLEAN ELSE {TRUE}
ReadyWriteOutcomes(bindOk, portalOk) ==
  IF StartRuns /\ bindOk /\ (streamer.capture_method # "portal" \/ ~portalOk)
  THEN BOOLEAN ELSE {TRUE}

\* the outcomes of the callback's sendall: it can fail only when it is issued,
\* on a pending client whose socket is still open
CallbackWriteOutcomes ==
  IF pending_stream_client # None /\ sock[pending_stream_client] = "open"
  THEN BOOLEAN ELSE {TRUE}

\* _on_stream_ready's write: stream_start to the pending client, when there is
\* a pending client and there are pending parameters
OnStreamReadyWrites(client, params, netOk) ==
  IF client # None /\ params # NoParams
  THEN Send(client, "callback", StreamStart(params), netOk)
  ELSE <<>>

StreamError(message) == [type |-> "stream_error", message |-> message]

\* variant: request_stream records no pending requester
PendingAfterRequest_Cleared(c, r) == None

\* the pending requester request_stream leaves: itself while the callback is
\* awaited, nobody once the callback ran inside start or start failed
PendingAfterRequest(c, r) == IF r.ok /\ ~r.ready THEN c ELSE None

RequestStreamCapped(c, command, bindOk, portalOk, netOk, cap) ==
  /\ sock[c] = "open"
  /\ IF ~has_streamer
     THEN /\ last' = Op("request_stream", c, command,
                        StreamError("Streaming not available"))
          /\ writes' = Respond(c, StreamError("Streaming not available"))
          /\ UNCHANGED <<streamVars, requester>>
     ELSE LET r == StreamerStart(streamer, RequestParams(command), bindOk, portalOk)
              resp == IF r.ok THEN NoResponse
                      ELSE StreamError("Failed to start stream")
              accepted == StreamState = "Idle" /\ r.ok
          IN /\ r.spawned =>
                  capture_threads.check + capture_threads.body < cap
             /\ streamer' = r.s
             /\ capture_threads' =
                  IF r.spawned
                  THEN [capture_threads EXCEPT !.check = @ + 1]
                  ELSE capture_threads
             /\ pending_stream_client' = PendingAfterRequest(c, r)
             /\ pending_stream_params' =
                  IF PendingAfterRequest(c, r) # None
                  THEN PendingParams(command) ELSE NoParams
             /\ writes' =
                  (IF r.ready
                   THEN OnStreamReadyWrites(c, PendingParams(command), netOk)
                   ELSE <<>>) \o Respond(c, resp)
             /\ last' = OpEnv("request_stream", c, command, resp,
                              [bindOk |-> bindOk, portalOk |-> portalOk,
                               netOk |-> netOk])
             /\ requester' = IF accepted THEN c ELSE requester
  /\ UNCHANGED <<sock, clients, serverVars, has_streamer, source_frames,
                 callback, layout_writer, device_sender>>
  /\ calls' = <<>>
  /\ UNCHANGED <<lifeVars, keys_down, threadVars, lineVars, editorVars, viewerVars>>

\* the request_stream branch, with at most MaxThreads capture loops alive
RequestStream(c, command, bindOk, portalOk, netOk) ==
  RequestStreamCapped(c, command, bindOk, portalOk, netOk, MaxThreads)

StreamStop == [type |-> "stream_stop", success |-> TRUE]

\* value of the requester ghost once a stop_stream has been answered: the
\* request accepted before it is withdrawn
Stopped == -1

\* what stop_stream does to the streamer
StopStreamEffect(s) == IF has_streamer THEN StreamerStop(s) ELSE s

StopStream(c) ==
  /\ sock[c] = "open"
  /\ streamer' = StopStreamEffect(streamer)
  /\ last' = Op("stop_stream", c, [type |-> "stop_stream"], StreamStop)
  /\ writes' = Respond(c, StreamStop)
  /\ requester' = IF has_streamer /\ requester # None THEN Stopped
                  ELSE requester
  /\ UNCHANGED <<sock, clients, serverVars, pending_stream_client,
                 pending_stream_params, capture_threads, has_streamer,
                 source_frames, callback, layout_writer, device_sender>>
  /\ calls' = <<>>
  /\ viewer' = IF has_streamer THEN ViewersAfterStop(streamer) ELSE viewer
  /\ stream_clients' = IF has_streamer THEN ClientsAfterStop(streamer)
                       ELSE stream_clients
  /\ stale_frame' = IF has_streamer THEN StaleAfterStop(streamer)
                    ELSE stale_frame
  /\ UNCHANGED <<lifeVars, keys_down, threadVars, lineVars, editorVars>>

(* ------------------ the portal's readiness callback -------------------- *)
\* PortalScreenCapture._start_gstreamer_pipeline sets portal_ready and calls
\* on_ready_callback on the GLib loop thread; _on_stream_ready tests the
\* pending request and builds the response from the pending parameters
PortalReady ==
  /\ has_streamer
  /\ streamer.portal = "negotiating"
  /\ callback.pc = "idle"
  /\ streamer' = [streamer EXCEPT !.portal = "ready"]
  /\ callback' = IF pending_stream_client # None /\ pending_stream_params # NoParams
                 THEN [pc |-> "send", params |-> pending_stream_params]
                 ELSE callback
  /\ last' = Step("portal_ready")
  /\ writes' = <<>>
  /\ UNCHANGED <<sock, clients, serverVars, pending_stream_client,
                 pending_stream_params, capture_threads, has_streamer,
                 source_frames, ghostVars>>
  /\ calls' = <<>>
  /\ UNCHANGED <<lifeVars, keys_down, threadVars, lineVars, editorVars, viewerVars>>

\* _on_stream_ready, second half: sendall on the pending client as it is now,
\* then the pending request is cleared
OnStreamReadySend(netOk) ==
  /\ callback.pc = "send"
  /\ writes' = OnStreamReadyWrites(pending_stream_client, callback.params, netOk)
  /\ pending_stream_client' = None
  /\ pending_stream_params' = NoParams
  /\ callback' = [pc |-> "idle", params |-> NoParams]
  /\ last' = [Step("on_stream_ready") EXCEPT !.env.netOk = netOk]
  /\ UNCHANGED <<sock, clients, serverVars, streamer, capture_threads,
                 has_streamer, source_frames, ghostVars>>
  /\ calls' = <<>>
  /\ UNCHANGED <<lifeVars, keys_down, threadVars, lineVars, editorVars, viewerVars>>

\* a portal response other than 0 (_on_create_session_response,
\* _on_select_sources_response, _on_start_response): the chain ends
PortalDenied ==
  /\ has_streamer
  /\ streamer.portal = "negotiating"
  /\ streamer' = [streamer EXCEPT !.portal = "denied"]
  /\ last' = Step("portal_denied")
  /\ writes' = <<>>
  /\ UNCHANGED <<sock, clients, serverVars, pending_stream_client,
                 pending_stream_params, capture_threads, has_streamer,
                 source_frames, callback, ghostVars>>
  /\ calls' = <<>>
  /\ UNCHANGED <<lifeVars, keys_down, threadVars, lineVars, editorVars, viewerVars>>

(* --------------------------- capture loop ------------------------------ *)
\* capture_loop's while test: the thread goes on into the body, or ends
CaptureCheck ==
  /\ capture_threads.check > 0
  /\ capture_threads' =
       IF streamer.streaming
       THEN [check |-> capture_threads.check - 1, body |-> capture_threads.body + 1]
       ELSE [capture_threads EXCEPT !.check = @ - 1]
  /\ last' = Step("capture_check")
  /\ writes' = <<>>
  /\ UNCHANGED <<sock, clients, serverVars, pending_stream_client,
                 pending_stream_params, streamer, has_streamer, source_frames,
                 callback, ghostVars>>
  /\ calls' = <<>>
  /\ UNCHANGED <<lifeVars, keys_down, threadVars, lineVars, editorVars, viewerVars>>

\* whether the body of capture_loop can obtain a frame
CanCapture(s) ==
  IF s.capture_method = "portal" /\ s.portal # "none"
  THEN s.portal = "ready"
  ELSE TRUE

\* capture_loop's body: pull a frame (got: the source had one), publish it
CaptureBody(got) ==
  /\ capture_threads.body > 0
  /\ got => source_frames < MaxFrames
  /\ capture_threads' =
       [check |-> capture_threads.check + 1, body |-> capture_threads.body - 1]
  /\ IF got /\ CanCapture(streamer)
     THEN /\ source_frames' = source_frames + 1
          /\ streamer' = [streamer EXCEPT !.frame_buffer = source_frames + 1]
     ELSE UNCHANGED <<source_frames, streamer>>
  /\ last' = Step("capture_body")
  /\ writes' = <<>>
  /\ UNCHANGED <<sock, clients, serverVars, pending_stream_client,
                 pending_stream_params, has_streamer, callback, ghostVars>>
  /\ calls' = <<>>
  /\ UNCHANGED <<lifeVars, keys_down, threadVars, lineVars, editorVars, viewerVars>>

(* ------------------------- stream viewers ------------------------------ *)
\* accept_clients: a viewer connects to the stream port while the stream is
\* on; its socket is registered and its sender thread started
AcceptClients(v) ==
  /\ has_streamer
  /\ streamer.streaming /\ streamer.listening
  /\ viewer[v].pc = "none"
  /\ \A u \in Viewers : u < v => viewer[u].pc # "none"
  /\ viewer' = [viewer EXCEPT ![v] = [pc |-> "headers", open |-> TRUE,
                                      failed |-> FALSE, last |-> None]]
  /\ stream_clients' = stream_clients \cup {v}
  /\ stale_frame' = stale_frame
  /\ last' = Step("accept_clients")
  /\ writes' = <<>>
  /\ calls' = <<>>
  /\ UNCHANGED <<sock, clients, serverVars, streamVars, has_streamer,
                 source_frames, callback, ghostVars, lifeVars, keys_down,
                 threadVars, lineVars, editorVars>>

\* the outcomes of a write to viewer v: on a closed socket it fails
ViewerWriteOutcomes(v) == IF viewer[v].open THEN BOOLEAN ELSE {FALSE}

\* stream_to_client: the HTTP headers; a failure ends the thread through the
\* outer except
SendHeaders(v, netOk) ==
  /\ viewer[v].pc = "headers"
  /\ viewer' = [viewer EXCEPT ![v] =
                  IF netOk THEN [@ EXCEPT !.pc = "loop"]
                  ELSE [@ EXCEPT !.pc = "finally", !.failed = TRUE]]
  /\ last' = Step("send_headers")
  /\ writes' = <<>>
  /\ calls' = <<>>
  /\ UNCHANGED <<sock, clients, serverVars, streamVars, has_streamer,
                 source_frames, callback, ghostVars, lifeVars, keys_down,
                 threadVars, lineVars, editorVars, stream_clients, stale_frame>>

\* stream_to_client, one turn of the loop: the while test, the wait (which
\* returns at the signal or after its timeout), the read of the frame buffer
\* and the sends of the frame; a failed send ends the loop
SendFrame(v, netOk) ==
  /\ viewer[v].pc = "loop"
  /\ viewer' = [viewer EXCEPT ![v] =
                  IF ~streamer.streaming THEN [@ EXCEPT !.pc = "finally"]
                  ELSE IF streamer.frame_buffer = None THEN @
                  ELSE IF netOk THEN [@ EXCEPT !.last = streamer.frame_buffer]
                  ELSE [@ EXCEPT !.pc = "finally", !.failed = TRUE]]
  /\ last' = Step("send_frame")
  /\ writes' = <<>>
  /\ calls' = <<>>
  /\ UNCHANGED <<sock, clients, serverVars, streamVars, has_streamer,
                 source_frames, callback, ghostVars, lifeVars, keys_down,
                 threadVars, lineVars, editorVars, stream_clients, stale_frame>>

\* variant: the finally block empties the list
RemoveViewer_Clear(cs, v) == {}

\* `if client_socket in self.clients: self.clients.remove(client_socket)`
RemoveViewer(cs, v) == cs \ {v}

\* stream_to_client's finally block
ViewerFinally(v) ==
  /\ viewer[v].pc = "finally"
  /\ viewer' = [viewer EXCEPT ![v].pc = "done", ![v].open = FALSE]
  /\ stream_clients' = RemoveViewer(stream_clients, v)
  /\ stale_frame' = stale_frame
  /\ last' = Step("viewer_finally")
  /\ writes' = <<>>
  /\ calls' = <<>>
  /\ UNCHANGED <<sock, clients, serverVars, streamVars, has_streamer,
                 source_frames, callback, ghostVars, lifeVars, keys_down,
                 threadVars, lineVars, editorVars>>

(* ------------------------ the key injector ----------------------------- *)
\* KEY_MAP, in the order of the dict literal
KeyMapItems ==
  << <<"dpad_up", "Up">>, <<"dpad_down", "Down">>, <<"dpad_left", "Left">>,
     <<"dpad_right", "Right">>, <<"x", "z">>, <<"circle", "x">>,
     <<"square", "a">>, <<"triangle", "s">>, <<"start", "space">>,
     <<"select", "v">>, <<"l", "q">>, <<"r", "w">>, <<"analog_up", "i">>,
     <<"analog_down", "k">>, <<"analog_left", "j">>, <<"analog_right", "l">> >>

KEY_MAP ==
  [b \in {KeyMapItems[i][1] : i \in DOMAIN KeyMapItems} |->
     KeyMapItems[CHOOSE i \in DOMAIN KeyMapItems : KeyMapItems[i][1] = b][2]]

\* KEY_MAP.values(), in order
KeyMapValues == [i \in DOMAIN KeyMapItems |-> KeyMapItems[i][2]]

\* simulate_key: one xdotool keydown for press, one keyup for release, no
\* call for any other action.  injOk: Popen started the process; when it
\* raises, no key event is injected
SimulateKey(key, action, injOk) ==
  IF action \in {"press", "release"}
  THEN <<[key |-> key, action |-> action, ok |-> injOk]>>
  ELSE <<>>

\* variant: the exception of the injector is not reported
SimulateKeyResult_AlwaysTrue(action, injOk) == TRUE

\* simulate_key's return value
SimulateKeyResult(action, injOk) ==
  IF action \in {"press", "release"} THEN injOk ELSE TRUE

\* the keys held down after the injector ran the calls cs, in order
RECURSIVE KeysAfter(_, _)
KeysAfter(keys, cs) ==
  IF cs = <<>> THEN keys
  ELSE KeysAfter(IF ~Head(cs).ok THEN keys
                 ELSE IF Head(cs).action = "press"
                      THEN keys \cup {Head(cs).key}
                      ELSE keys \ {Head(cs).key},
                 Tail(cs))

(* -------------------- handle_command: input ---------------------------- *)
\* the handler thread of c can dispatch a line: its socket is open, or stop()
\* closed the socket while the handler still held a received line
Handling(c) == stop_pc # "exited" /\ (sock[c] = "open" \/ c \in draining)

\* handle_client's send of the response: on a socket that stop() closed the
\* send raises and the handler ends
HandlerWrites(c, resp) == IF sock[c] = "open" THEN Respond(c, resp) ELSE <<>>

Error(message, detail) ==
  [type |-> "error", message |-> message, detail |-> detail]

\* command.get(key) of a field that is absent
NoValue == "None"

ButtonNames == DOMAIN KEY_MAP \cup {"home", NoValue}
ButtonActions == {"press", "release", "hold", NoValue}
ButtonCmds ==
  {[type |-> "button", button |-> b, action |-> a] :
     b \in ButtonNames \ {NoValue}, a \in ButtonActions \ {NoValue}}
  \cup {[type |-> "button", action |-> a] : a \in ButtonActions \ {NoValue}}
  \cup {[type |-> "button", button |-> b] : b \in {"x", "home"}}

\* the outcomes of the injector for a button message: Popen runs, and can
\* fail, only for a known button with action press or release
InjectorOutcomes(command) ==
  IF /\ Get(command, "button", NoValue) \in DOMAIN KEY_MAP
     /\ Get(command, "action", NoValue) \in {"press", "release"}
  THEN BOOLEAN ELSE {TRUE}

\* variant: an unknown button falls back to the key of its own name
ButtonKnown_Any(button) == button # NoValue

\* button in KEY_MAP
ButtonKnown(button) == button \in DOMAIN KEY_MAP

\* variant: the button id is used as the key name
ButtonKey_Identity(button) == button

\* the key a button message acts on
ButtonKey(button) == IF button \in DOMAIN KEY_MAP THEN KEY_MAP[button] ELSE button

\* the injector calls of a button message
ButtonCalls(command, injOk) ==
  IF ButtonKnown(Get(command, "button", NoValue))
  THEN SimulateKey(ButtonKey(Get(command, "button", NoValue)),
                   Get(command, "action", NoValue), injOk)
  ELSE <<>>

\* the response of a button message
ButtonResponse(command, injOk) ==
  IF ButtonKnown(Get(command, "button", NoValue))
  THEN Ack(SimulateKeyResult(Get(command, "action", NoValue), injOk))
  ELSE Error("Unknown button", Get(command, "button", NoValue))

Button(c, command, injOk) ==
  /\ Handling(c)
  /\ calls' = ButtonCalls(command, injOk)
  /\ keys_down' = KeysAfter(keys_down, ButtonCalls(command, injOk))
  /\ Cardinality(keys_down') <= MaxDown
  /\ last' = Op("button", c, command, ButtonResponse(command, injOk))
  /\ writes' = HandlerWrites(c, ButtonResponse(command, injOk))
  /\ draining' = draining \ {c}
  /\ UNCHANGED <<sock, clients, serverVars, streamVars, has_streamer,
                 source_frames, callback, ghostVars, running, server_socket,
                 stop_pc>>
  /\ UNCHANGED <<threadVars, lineVars, editorVars, viewerVars>>

\* analog positions, in tenths
AnalogValues == {-10, -5, -3, 0, 3, 5, 10}
AnalogCmds ==
  {[type |-> "analog", x |-> x, y |-> y] : x \in AnalogValues, y \in AnalogValues}
  \cup {[type |-> "analog"], [type |-> "analog", x |-> 5], [type |-> "analog", y |-> -5]}

\* the keys analog releases first, in order
AnalogKeys == <<"i", "k", "j", "l">>
AnalogReleases ==
  [i \in DOMAIN AnalogKeys |-> [key |-> AnalogKeys[i], action |-> "release", ok |-> TRUE]]

\* variant: the deadzone test is not strict
Beyond_Inclusive(v) == v >= AnalogThreshold

\* v > threshold
Beyond(v) == v > AnalogThreshold

\* the presses of one axis: the key of the negative side, or of the positive
AxisPress(v, negKey, posKey) ==
  IF Beyond(-v) THEN SimulateKey(negKey, "press", TRUE)
  ELSE IF Beyond(v) THEN SimulateKey(posKey, "press", TRUE)
  ELSE <<>>

\* the injector calls of an analog message (simulate_key's result is not
\* looked at here: the calls are taken to succeed)
AnalogCalls(command) ==
  AnalogReleases
    \o AxisPress(Get(command, "y", 0), "i", "k")
    \o AxisPress(Get(command, "x", 0), "j", "l")

Analog(c, command) ==
  /\ Handling(c)
  /\ calls' = AnalogCalls(command)
  /\ keys_down' = KeysAfter(keys_down, AnalogCalls(command))
  /\ Cardinality(keys_down') <= MaxDown
  /\ last' = Op("analog", c, command, Ack(TRUE))
  /\ writes' = HandlerWrites(c, Ack(TRUE))
  /\ draining' = draining \ {c}
  /\ UNCHANGED <<sock, clients, serverVars, streamVars, has_streamer,
                 source_frames, callback, ghostVars, running, server_socket,
                 stop_pc>>
  /\ UNCHANGED <<threadVars, lineVars, editorVars, viewerVars>>

(* ----------- handle_command: ping, errors, get_device_info ------------- *)
Ping(c) ==
  /\ Handling(c)
  /\ last' = Op("ping", c, [type |-> "ping"], [type |-> "pong"])
  /\ writes' = HandlerWrites(c, [type |-> "pong"])
  /\ calls' = <<>>
  /\ draining' = draining \ {c}
  /\ UNCHANGED <<sock, clients, serverVars, streamVars, has_streamer,
                 source_frames, callback, ghostVars, running, server_socket,
                 stop_pc, keys_down>>
  /\ UNCHANGED <<threadVars, lineVars, editorVars, viewerVars>>

\* lines json.loads rejects
InvalidLines == {[type |-> "line", text |-> "{bad"], [type |-> "line", text |-> "ping"]}

\* variant: the spec's wording of the message
InvalidLineResponse_Input == Error("Invalid input", NoValue)

\* the response of the JSONDecodeError branch
InvalidLineResponse == Error("Invalid JSON", NoValue)

\* a line that is not valid JSON: json.loads raises, nothing is dispatched
InvalidLine(c, line) ==
  /\ Handling(c)
  /\ last' = Op("invalid_line", c, line, InvalidLineResponse)
  /\ writes' = HandlerWrites(c, InvalidLineResponse)
  /\ calls' = <<>>
  /\ draining' = draining \ {c}
  /\ UNCHANGED <<sock, clients, serverVars, streamVars, has_streamer,
                 source_frames, callback, ghostVars, running, server_socket,
                 stop_pc, keys_down>>
  /\ UNCHANGED <<threadVars, lineVars, editorVars, viewerVars>>

\* the types handle_command has a branch for
CommandTypes ==
  {"ping", "button", "analog", "device_info", "get_device_info", "get_layout",
   "current_layout", "layout_update", "layout_preview", "set_layout",
   "request_stream", "stop_stream", "refresh_stream", "stream_status"}

\* messages of no known type: another type, a type in another case, no type
UnknownCmds ==
  {[type |-> "jump"],
   [type |-> "Button", button |-> "x", action |-> "press"],
   [type |-> "device-info", width |-> 1280, height |-> 720, density |-> 200],
   [button |-> "x", action |-> "press"],
   [width |-> 480, height |-> 800]}

\* variant: a message without a type is taken for a button message
UnknownCalls_ButtonFallback(command) ==
  IF "type" \notin DOMAIN command /\ "button" \in DOMAIN command
  THEN ButtonCalls(command, TRUE) ELSE <<>>

\* the injector calls of the else branch: none
UnknownCalls(command) == <<>>

UnknownResponse(command) ==
  Error("Unknown command type", Get(command, "type", NoValue))

\* the else branch of handle_command
Unknown(c, command) ==
  /\ Handling(c)
  /\ Get(command, "type", NoValue) \notin CommandTypes
  /\ last' = Op("unknown", c, command, UnknownResponse(command))
  /\ writes' = HandlerWrites(c, UnknownResponse(command))
  /\ calls' = UnknownCalls(command)
  /\ keys_down' = KeysAfter(keys_down, UnknownCalls(command))
  /\ draining' = draining \ {c}
  /\ UNCHANGED <<sock, clients, serverVars, streamVars, has_streamer,
                 source_frames, callback, ghostVars, running, server_socket,
                 stop_pc>>
  /\ UNCHANGED <<threadVars, lineVars, editorVars, viewerVars>>

\* the response of get_device_info
GetDeviceInfoResponse ==
  IF device_info # NoDeviceInfo
  THEN [type |-> "device_info", width |-> device_info.width,
        height |-> device_info.height, density |-> device_info.density]
  ELSE [type |-> "device_info", width |-> DefaultWidth,
        height |-> DefaultHeight, density |-> DefaultDensity]

GetDeviceInfo(c) ==
  /\ Handling(c)
  /\ last' = Op("get_device_info", c, [type |-> "get_device_info"],
                GetDeviceInfoResponse)
  /\ writes' = HandlerWrites(c, GetDeviceInfoResponse)
  /\ calls' = <<>>
  /\ draining' = draining \ {c}
  /\ UNCHANGED <<sock, clients, serverVars, streamVars, has_streamer,
                 source_frames, callback, ghostVars, running, server_socket,
                 stop_pc, keys_down>>
  /\ UNCHANGED <<threadVars, lineVars, editorVars, viewerVars>>

\* refresh_stream: ScreenStreamer.refresh_window does nothing
RefreshStream(c) ==
  /\ Handling(c)
  /\ last' = Op("refresh_stream", c, [type |-> "refresh_stream"], Ack(TRUE))
  /\ writes' = HandlerWrites(c, Ack(TRUE))
  /\ calls' = <<>>
  /\ draining' = draining \ {c}
  /\ UNCHANGED <<sock, clients, serverVars, streamVars, has_streamer,
                 source_frames, callback, ghostVars, running, server_socket,
                 stop_pc, keys_down>>
  /\ UNCHANGED <<threadVars, lineVars, editorVars, viewerVars>>

\* stream_status: ScreenStreamer.get_status, or the answer without a streamer
StreamStatus(c) ==
  /\ Handling(c)
  /\ LET resp == IF has_streamer
                 THEN [type |-> "stream_status",
                       streaming |-> streamer.streaming,
                       clients |-> Cardinality(stream_clients),
                       fps |-> streamer.fps,
                       capture_method |-> streamer.capture_method,
                       portal_ready |-> streamer.portal = "ready"]
                 ELSE [type |-> "stream_status", streaming |-> FALSE,
                       available |-> FALSE]
     IN /\ last' = Op("stream_status", c, [type |-> "stream_status"], resp)
        /\ writes' = HandlerWrites(c, resp)
  /\ calls' = <<>>
  /\ draining' = draining \ {c}
  /\ UNCHANGED <<sock, clients, serverVars, streamVars, has_streamer,
                 source_frames, callback, ghostVars, running, server_socket,
                 stop_pc, keys_down>>
  /\ UNCHANGED <<threadVars, lineVars, editorVars, viewerVars>>

\* lines json.loads accepts on which the body of handle_command raises: a
\* JSON value that is not an object has no get, a button that is a list
\* cannot be looked up in KEY_MAP; error is the text of the exception
RaisingLines ==
  {[type |-> "line", text |-> "[1]",
    error |-> "'list' object has no attribute 'get'"],
   [type |-> "line", text |-> "5",
    error |-> "'int' object has no attribute 'get'"],
   [type |-> "line", text |-> "null",
    error |-> "'NoneType' object has no attribute 'get'"],
   [type |-> "line", text |-> "{\"type\": \"button\", \"button\": []}",
    error |-> "unhashable type: 'list'"]}

\* variant: the exception leaves handle_command
RaisedResponse_Propagates(line) == NoResponse

\* except Exception as e: the response carries str(e)
RaisedResponse(line) == Error(line.error, NoValue)

\* a line on which handle_command raises before it has changed anything
Raises(c, line) ==
  /\ Handling(c)
  /\ last' = Op("raises", c, line, RaisedResponse(line))
  /\ writes' = HandlerWrites(c, RaisedResponse(line))
  /\ calls' = <<>>
  /\ draining' = draining \ {c}
  /\ UNCHANGED <<sock, clients, serverVars, streamVars, has_streamer,
                 source_frames, callback, ghostVars, running, server_socket,
                 stop_pc, keys_down>>
  /\ UNCHANGED <<threadVars, lineVars, editorVars, viewerVars>>

(* ------------------------------ stop() --------------------------------- *)
\* stop(), first part, on a termination request: running is reset, every
\* socket of the live-connection set and the control listener are closed.
\* held: the handlers that hold a received line at that moment
StopClose(held) ==
  /\ running
  /\ stop_pc = "none"
  /\ held \subseteq {c \in Conn : sock[c] = "open"}
  /\ running' = FALSE
  /\ sock' = [c \in Conn |-> IF c \in clients THEN "closed" ELSE sock[c]]
  /\ clients' = {}
  /\ server_socket' = "closed"
  /\ stop_pc' = "closed"
  /\ draining' = held
  /\ last' = Step("stop_close")
  /\ writes' = <<>>
  /\ calls' = <<>>
  /\ UNCHANGED <<serverVars, streamVars, has_streamer, source_frames, callback,
                 ghostVars, keys_down>>
  /\ UNCHANGED <<threadVars, lineVars, editorVars, viewerVars>>

\* the release calls of stop(): one for every value of KEY_MAP, in order
StopCalls ==
  [i \in DOMAIN KeyMapValues |-> [key |-> KeyMapValues[i], action |-> "release", ok |-> TRUE]]

\* stop(), second part: release all keys
StopRelease ==
  /\ stop_pc = "closed"
  /\ calls' = StopCalls
  /\ keys_down' = KeysAfter(keys_down, StopCalls)
  /\ stop_pc' = "released"
  /\ last' = Step("stop_release")
  /\ writes' = <<>>
  /\ UNCHANGED <<sock, clients, serverVars, streamVars, has_streamer,
                 source_frames, callback, ghostVars, running, server_socket,
                 draining>>
  /\ UNCHANGED <<threadVars, lineVars, editorVars, viewerVars>>

\* signal_handler's sys.exit(0) after stop(): the daemon handler threads end
Exit ==
  /\ stop_pc = "released"
  /\ stop_pc' = "exited"
  /\ draining' = {}
  /\ last' = Step("exit")
  /\ writes' = <<>>
  /\ calls' = <<>>
  /\ UNCHANGED <<sock, clients, serverVars, streamVars, has_streamer,
                 source_frames, callback, ghostVars, running, server_socket,
                 keys_down>>
  /\ UNCHANGED <<threadVars, lineVars, editorVars, viewerVars>>

(* ------------------- handle_client: the read loop --------------------- *)
\* The text a client sends, one character at a time. "p" stands for the text
\* of a ping message, "x" for a character that is not JSON, " " for a blank,
\* "U" for a character whose UTF-8 encoding has two bytes.
Chars == {"p", "x", " ", "\n", "U"}
Whitespace == {" "}

\* The bytes of that text: every character but "U" is one byte, "U" is the
\* lead byte "C3" followed by the continuation byte "A9".
Bytes == {"p", "x", " ", "\n", "C3", "A9"}

\* what one recv can return: between one byte and MaxChunk of them
Chunks == UNION {[1..n -> Bytes] : n \in 1..MaxChunk}

\* the bytes a client has sent so far are the beginning of UTF-8 text: a
\* continuation byte follows a lead byte, a lead byte is followed by a
\* continuation byte unless the text is cut right after it
ValidPrefix(b) ==
  \A i \in DOMAIN b :
    /\ b[i] = "C3" => (IF i = Len(b) THEN TRUE ELSE b[i + 1] = "A9")
    /\ b[i] = "A9" => (i > 1 /\ b[i - 1] = "C3")

\* bytes.decode('utf-8') raises UnicodeDecodeError unless every character of
\* the chunk is complete
DecodeOk(chunk) ==
  \A i \in DOMAIN chunk :
    /\ chunk[i] = "C3" => (i < Len(chunk) /\ chunk[i + 1] = "A9")
    /\ chunk[i] = "A9" => (i > 1 /\ chunk[i - 1] = "C3")

\* the characters of a sequence of bytes
Decode(chunk) ==
  LET kept == SelectSeq(chunk, LAMBDA b : b # "C3")
  IN [i \in DOMAIN kept |-> IF kept[i] = "A9" THEN "U" ELSE kept[i]]

\* '\n' in buffer
HasNewline(b) == \E i \in DOMAIN b : b[i] = "\n"

\* variant: the buffer is split at its last newline
SplitLine_RSplit(b) ==
  LET i == CHOOSE k \in DOMAIN b :
             b[k] = "\n" /\ \A j \in DOMAIN b : j > k => b[j] # "\n"
  IN [line |-> SubSeq(b, 1, i - 1), rest |-> SubSeq(b, i + 1, Len(b))]

\* buffer.split('\n', 1)
SplitLine(b) ==
  LET i == CHOOSE k \in DOMAIN b :
             b[k] = "\n" /\ \A j \in DOMAIN b : j < k => b[j] # "\n"
  IN [line |-> SubSeq(b, 1, i - 1), rest |-> SubSeq(b, i + 1, Len(b))]

\* str.strip
RECURSIVE LStrip(_)
LStrip(l) ==
  IF l # <<>> /\ Head(l) \in Whitespace THEN LStrip(Tail(l)) ELSE l
RECURSIVE RStrip(_)
RStrip(l) ==
  IF l # <<>> /\ l[Len(l)] \in Whitespace
  THEN RStrip(SubSeq(l, 1, Len(l) - 1)) ELSE l
Strip(l) == RStrip(LStrip(l))

\* handle_command on a stripped line: the text of a ping is answered with
\* pong, any other text is not JSON
HandleLine(line) ==
  IF line = <<"p">> THEN [type |-> "pong"] ELSE InvalidLineResponse

\* recv returns a chunk: it is decoded and appended to the buffer; a chunk
\* that does not decode raises, which ends the loop
Recv(c, chunk) ==
  /\ running
  /\ sock[c] = "open"
  /\ reader[c].pc = "recv"
  /\ Len(wire[c].arrived) + Len(chunk) <= MaxRecv
  /\ ValidPrefix(wire[c].arrived \o chunk)
  /\ reader' = IF DecodeOk(chunk)
                THEN [reader EXCEPT ![c].buffer = @ \o Decode(chunk),
                                    ![c].pc = "split"]
                ELSE [reader EXCEPT ![c].pc = "except"]
  /\ wire' = [wire EXCEPT ![c].arrived = @ \o chunk]
  /\ UNCHANGED <<sock, clients, serverVars, streamVars, has_streamer,
                 source_frames, callback, last, writes, ghostVars, lifeVars,
                 keys_down, calls, threadVars, viewerVars,
                 editorVars>>

\* the test of the inner while loop and, when the buffer holds a newline, the
\* split and the dispatch of the line; a blank line is dropped
NextLine(c) ==
  /\ sock[c] = "open"
  /\ reader[c].pc = "split"
  /\ IF ~HasNewline(reader[c].buffer)
     THEN /\ reader' = [reader EXCEPT ![c].pc = "recv"]
          /\ wire' = wire
     ELSE LET sp == SplitLine(reader[c].buffer)
              line == Strip(sp.line)
          IN IF line = <<>>
             THEN /\ reader' = [reader EXCEPT ![c].buffer = sp.rest]
                  /\ wire' = wire
             ELSE /\ reader' = [reader EXCEPT ![c].buffer = sp.rest,
                                              ![c].pc = "send",
                                              ![c].response = HandleLine(line)]
                  /\ wire' = [wire EXCEPT ![c].dispatched = Append(@, line)]
  /\ UNCHANGED <<sock, clients, serverVars, streamVars, has_streamer,
                 source_frames, callback, last, writes, ghostVars, lifeVars,
                 keys_down, calls, threadVars, viewerVars,
                 editorVars>>

\* client_socket.send of the response
SendResponse(c) ==
  /\ sock[c] = "open"
  /\ reader[c].pc = "send"
  /\ reader' = [reader EXCEPT ![c].pc = "split", ![c].response = NoResponse]
  /\ wire' = [wire EXCEPT ![c].responses = Append(@, reader[c].response)]
  /\ UNCHANGED <<sock, clients, serverVars, streamVars, has_streamer,
                 source_frames, callback, last, writes, ghostVars, lifeVars,
                 keys_down, calls, threadVars, viewerVars,
                 editorVars>>

\* variant: a timeout starts over with an empty buffer
AfterTimeout_Reset(r) ==
  [r EXCEPT !.timeouts = @ + 1, !.held = r.buffer, !.buffer = <<>>]

\* except socket.timeout: continue. The handler goes back to the test of
\* the outer loop with its buffer as it is; timeouts counts the timeouts of
\* the connection, held is the buffer at the latest of them
AfterTimeout(r) == [r EXCEPT !.timeouts = @ + 1, !.held = r.buffer]

\* recv raises socket.timeout: nothing arrived for the timeout period
RecvTimeout(c) ==
  /\ running
  /\ sock[c] = "open"
  /\ reader[c].pc = "recv"
  /\ reader[c].timeouts < MaxTimeouts
  /\ reader' = [reader EXCEPT ![c] = AfterTimeout(@)]
  /\ UNCHANGED <<wire, sock, clients, serverVars, streamVars, has_streamer,
                 source_frames, callback, last, writes, ghostVars, lifeVars,
                 keys_down, calls, threadVars, viewerVars,
                 editorVars>>

\* the loop ends, because recv returned no data (the client closed) or
\* because of an exception other than a timeout, and the finally block runs
ReaderExit(c) ==
  /\ reader[c].pc \in {"recv", "except"}
  /\ Disconnect(c)

(* ------------------ threads, locks and socket writes ------------------- *)
\* The actions above take a handler as one step. Here the same code is laid
\* out as the sequence of lock operations, accesses to shared fields and
\* socket operations a thread performs, one step each, so that the threads
\* interleave and a lock excludes. The values read and written are those of
\* the actions above and are left out, except the primary reference, the
\* client list and the state of the sockets.
M(op, what) == [op |-> op, what |-> what, to |-> 0]
Loop(pc) == [op |-> "loop", what |-> "while", to |-> pc]

\* handle_client, before its loop
ConnectSteps ==
  <<M("acquire", "clients_lock"), M("write", "clients"), M("release", "clients_lock")>>

\* device_info, and the send of its response by handle_client
DeviceInfoSteps ==
  <<M("acquire", "clients_lock"), M("write", "device_info"), M("write", "android_client"),
    M("release", "clients_lock"), M("read", "device_info"), M("send", "self")>>

GetDeviceInfoSteps == <<M("read", "device_info"), M("send", "self")>>

GetLayoutSteps == <<M("read", "current_layout"), M("send", "self")>>

CurrentLayoutSteps ==
  <<M("write", "current_layout"), M("read", "current_layout"), M("send", "self")>>

LayoutUpdateSteps == <<M("write", "current_layout"), M("send", "self")>>

LayoutPreviewSteps == <<M("read", "android_client"), M("send", "primary"), M("send", "self")>>

SetLayoutSteps ==
  <<M("write", "current_layout"), M("read", "android_client"), M("send", "primary"), M("send", "self")>>

\* request_stream with a portal capture: start returns True and there is no
\* response
RequestStreamSteps ==
  <<M("write", "pending_stream_client"), M("write", "pending_stream_params")>>

\* stop_stream: ScreenStreamer.stop closes the viewers under the streamer's
\* clients_lock
StopStreamSteps ==
  <<M("acquire", "streamer_clients_lock"), M("close", "viewers"),
    M("release", "streamer_clients_lock"), M("send", "self")>>

\* handle_client's finally block, on the path that stops the stream
FinallySteps ==
  <<M("read", "pending_stream_client"),
    M("acquire", "streamer_clients_lock"), M("close", "viewers"), M("release", "streamer_clients_lock"),
    M("write", "pending_stream_client"), M("write", "pending_stream_params"),
    M("acquire", "clients_lock"), M("write", "clients"), M("release", "clients_lock"), M("close", "self")>>

\* _on_stream_ready
OnStreamReadySteps ==
  <<M("read", "pending_stream_client"), M("read", "pending_stream_params"), M("send", "pending"),
    M("write", "pending_stream_client"), M("write", "pending_stream_params")>>

\* variant: the frame is written to the viewer inside the with block
StreamToClientSteps_SendUnderLock ==
  <<M("send", "viewer"), M("wait", "new_frame_event"),
    M("acquire", "frame_lock"), M("read", "frame_buffer"), M("send", "viewer"), M("release", "frame_lock"),
    Loop(2),
    M("close", "viewer"), M("acquire", "streamer_clients_lock"), M("write", "viewers"),
    M("release", "streamer_clients_lock")>>

\* stream_to_client: the headers, then per frame the wait, the read of the
\* frame buffer under frame_lock and the sends; the finally block at the end
StreamToClientSteps ==
  <<M("send", "viewer"), M("wait", "new_frame_event"),
    M("acquire", "frame_lock"), M("read", "frame_buffer"), M("release", "frame_lock"), M("send", "viewer"),
    Loop(2),
    M("close", "viewer"), M("acquire", "streamer_clients_lock"), M("write", "viewers"),
    M("release", "streamer_clients_lock")>>

HandlerPrograms ==
  {"device_info", "get_device_info", "get_layout", "current_layout",
   "layout_update", "layout_preview", "set_layout", "request_stream",
   "stop_stream", "finally"}

Program(p) ==
  CASE p = "connect" -> ConnectSteps
    [] p = "device_info" -> DeviceInfoSteps
    [] p = "get_device_info" -> GetDeviceInfoSteps
    [] p = "get_layout" -> GetLayoutSteps
    [] p = "current_layout" -> CurrentLayoutSteps
    [] p = "layout_update" -> LayoutUpdateSteps
    [] p = "layout_preview" -> LayoutPreviewSteps
    [] p = "set_layout" -> SetLayoutSteps
    [] p = "request_stream" -> RequestStreamSteps
    [] p = "stop_stream" -> StopStreamSteps
    [] p = "finally" -> FinallySteps
    [] p = "on_stream_ready" -> OnStreamReadySteps
    [] p = "stream_to_client" -> StreamToClientSteps

Active(t) == thread[t].prog \notin {"idle", "closed"}

\* the operation thread t is about to perform
Cur(t) == Program(thread[t].prog)[thread[t].pc]

HeldBy(t) == {l \in Locks : locks[l] = t}

\* the position after the current operation; with no primary the forward
\* that follows the test of android_client is not attempted
After(t) ==
  IF thread[t].pc < Len(Program(thread[t].prog))
  THEN [thread[t] EXCEPT
          !.pc = IF Cur(t) = M("read", "android_client") /\ android_client = None
                 THEN @ + 2 ELSE @ + 1,
          !.blocked = None]
  ELSE IF thread[t].prog = "finally" THEN NoHandler ELSE IdleThread

\* the control connection a send of handler t goes to
SendTarget(t) ==
  IF Cur(t).what = "self" THEN t
  ELSE IF Cur(t).what = "primary" THEN android_client
  ELSE None

\* what the steps of the threads leave alone
steppedVars ==
  <<device_info, current_layout, streamVars, has_streamer, source_frames,
    callback, last, writes, ghostVars, lifeVars, keys_down, calls, lineVars, editorVars,
    viewerVars>>

\* start(): the accept of connection t and the start of its handler thread
HandlerStart(t) ==
  /\ running
  /\ sock[t] = "new"
  /\ \A d \in Conn : d < t => sock[d] # "new"
  /\ sock' = [sock EXCEPT ![t] = "open"]
  /\ thread' = [thread EXCEPT ![t] = [prog |-> "connect", pc |-> 1,
                                      blocked |-> None]]
  /\ UNCHANGED <<clients, android_client, locks, truncated, steppedVars>>

\* thread t enters the code p: a handler dispatches a line of that type or
\* leaves its loop, the portal calls back, a viewer's sender thread starts
Begin(t, p) ==
  /\ thread[t] = IdleThread
  /\ t \in Conn => sock[t] = "open"
  /\ thread' = [thread EXCEPT ![t] = [prog |-> p, pc |-> 1, blocked |-> None]]
  /\ UNCHANGED <<sock, clients, android_client, locks, truncated, steppedVars>>

\* thread t performs its current operation. An acquire waits for the lock. A
\* send that was blocked ends here: the peer read, or the socket's timeout
\* expired and the exception was caught
ThreadStep(t) ==
  /\ Active(t)
  /\ Cur(t).op = "acquire" => locks[Cur(t).what] = NoThread
  /\ locks' = IF Cur(t).op = "acquire" THEN [locks EXCEPT ![Cur(t).what] = t]
              ELSE IF Cur(t).op = "release"
                   THEN [locks EXCEPT ![Cur(t).what] = NoThread]
                   ELSE locks
  /\ android_client' = IF Cur(t) = M("write", "android_client") THEN t
                       ELSE android_client
  /\ clients' = IF Cur(t) = M("write", "clients")
                THEN (IF thread[t].prog = "connect" THEN clients \cup {t}
                      ELSE clients \ {t})
                ELSE clients
  /\ sock' = IF Cur(t) = M("close", "self") THEN [sock EXCEPT ![t] = "closed"]
             ELSE sock
  /\ thread' = [thread EXCEPT ![t] = After(t)]
  /\ UNCHANGED <<truncated, steppedVars>>

\* the while test of stream_to_client succeeds: one more frame
LoopBack(t) ==
  /\ Active(t)
  /\ Cur(t).op = "loop"
  /\ thread' = [thread EXCEPT ![t].pc = Cur(t).to]
  /\ UNCHANGED <<sock, clients, android_client, locks, truncated, steppedVars>>

\* a send of handler t on a control socket whose peer does not read: the
\* thread stays in send until the peer reads or the 5 s timeout set at the
\* accept expires
SendBlocks(t) ==
  /\ Active(t)
  /\ Cur(t).op = "send"
  /\ thread[t].blocked = None
  /\ SendTarget(t) # None
  /\ sock[SendTarget(t)] = "open"
  /\ thread' = [thread EXCEPT ![t].blocked = SendTarget(t)]
  /\ UNCHANGED <<sock, clients, android_client, locks, truncated, steppedVars>>

\* socket.send returns after writing only the beginning of the message: the
\* send buffer of the peer's socket had room for less than all of it. The
\* handler does not look at the count send returns and goes on, so the rest
\* of the line is never written and the next write to that socket lands
\* inside it. The first such write on a connection is recorded.
SendPart(t) ==
  /\ Active(t)
  /\ Cur(t).op = "send"
  /\ SendTarget(t) # None
  /\ sock[SendTarget(t)] = "open"
  /\ truncated[SendTarget(t)] = None
  /\ truncated' = [truncated EXCEPT ![SendTarget(t)] = t]
  /\ thread' = [thread EXCEPT ![t] = After(t)]
  /\ UNCHANGED <<sock, clients, android_client, locks, steppedVars>>

(* --------------------------- layout editor ----------------------------- *)
\* what the editor, a program of its own, leaves alone
notEditor ==
  <<serverVars, streamVars, ghostVars, lifeVars, threadVars, lineVars,
    viewerVars, sock, clients, has_streamer, source_frames, callback, last,
    writes, keys_down, calls>>

\* LayoutEditorCanvas.update_control: dict.update of the control's settings
update_control(layout_data, control_id, settings) ==
  IF control_id \in DOMAIN layout_data
  THEN [layout_data EXCEPT ![control_id] =
          [k \in DOMAIN @ \cup DOMAIN settings |->
             IF k \in DOMAIN settings THEN settings[k] ELSE @[k]]]
  ELSE layout_data

\* _add_to_history: the redo part is cut off, the action appended, the
\* oldest action dropped beyond max_history. history_index counts from 0 as
\* in the source, the sequence from 1.
add_to_history(e, action) ==
  LET appended == Append(SubSeq(e.history, 1, e.history_index + 1), action)
      kept == IF Len(appended) > max_history THEN Tail(appended) ELSE appended
  IN [e EXCEPT !.history = kept, !.history_index = Len(kept) - 1]

\* _on_settings_changed: a change made in the control panel
on_settings_changed(control_id, settings) ==
  LET old_settings == editor.layout_data[control_id]
      layout_data == update_control(editor.layout_data, control_id, settings)
      action == [control_id |-> control_id, old_state |-> old_settings,
                 new_state |-> layout_data[control_id]]
  IN /\ editor' = [add_to_history([editor EXCEPT !.layout_data = layout_data],
                                  action)
                     EXCEPT !.op = "change", !.before = <<>>]
     /\ UNCHANGED notEditor

\* mouseMoveEvent while dragging: the position is written to the canvas
\* layout; _on_layout_changed sends a preview and records nothing
mouseMoveEvent(control_id, new_x) ==
  /\ editor' = [editor EXCEPT !.layout_data[control_id].x = new_x,
                              !.op = "drag", !.before = <<>>]
  /\ UNCHANGED notEditor

\* LayoutEditorCanvas.set_layout, from _apply_preset, _reset_layout or
\* _on_layout_received
set_layout(layout) ==
  /\ editor' = [editor EXCEPT !.layout_data = layout,
                              !.op = "replace", !.before = <<>>]
  /\ UNCHANGED notEditor

\* undo; before is the canvas layout it found
undo ==
  /\ editor' =
    IF editor.history_index >= 0
    THEN LET action == editor.history[editor.history_index + 1]
         IN [editor EXCEPT
               !.layout_data = update_control(@, action.control_id,
                                              action.old_state),
               !.history_index = @ - 1,
               !.op = "undo", !.before = editor.layout_data]
    ELSE [editor EXCEPT !.op = "none", !.before = <<>>]
  /\ UNCHANGED notEditor

\* redo
redo ==
  /\ editor' =
    IF editor.history_index < Len(editor.history) - 1
    THEN LET action == editor.history[editor.history_index + 2]
         IN [editor EXCEPT
               !.layout_data = update_control(@, action.control_id,
                                              action.new_state),
               !.history_index = @ + 1,
               !.op = "redo", !.before = <<>>]
    ELSE [editor EXCEPT !.op = "none", !.before = <<>>]
  /\ UNCHANGED notEditor

(* ------------------------------ claims --------------------------------- *)
IsStreamStart(w) == w.msg.type = "stream_start"
StreamStarts == {i \in DOMAIN writes : IsStreamStart(writes[i])}
Forwards == {i \in DOMAIN writes : writes[i].kind = "forward"}
NotIdle == {"Starting", "Streaming"}

\* C1: a request_stream received while the stream is Starting or Streaming is
\* answered with stream_error and leaves the pending requester, the pending
\* parameters and the stream's width/height/fps/quality as they were.
C1_SecondRequestRejected ==
  [][(last'.op = "request_stream" /\ has_streamer /\ StreamState \in NotIdle)
       => /\ last'.resp.type = "stream_error"
          /\ pending_stream_client' = pending_stream_client
          /\ pending_stream_params' = pending_stream_params
          /\ streamer'.target_width = streamer.target_width
          /\ streamer'.target_height = streamer.target_height
          /\ streamer'.fps = streamer.fps
          /\ streamer'.quality = streamer.quality]_vars

\* C2: a stream_start is written at most once per readiness signal and only to
\* the connection whose request_stream was accepted while Idle.
C2_StartOnlyToRequester ==
  /\ Cardinality(StreamStarts) <= 1
  /\ \A i \in StreamStarts : writes[i].to = requester

\* C3 (as stated): a request_stream dispatched while Idle with a streamer
\* present leaves the stream Starting with the sender and its parameters
\* pending, and writes nothing during the dispatch.
C3_NoWriteDuringDispatch ==
  (last.op = "request_stream" /\ has_streamer /\ last.pre = "Idle")
    => /\ StreamState = "Starting"
       /\ pending_stream_client = last.conn
       /\ pending_stream_params = PendingParams(last.cmd)
       /\ writes = <<>>

\* C3 (amended): when the streaming port can be bound, a request_stream
\* dispatched while Idle returns no response; with portal capture started it
\* leaves the stream Starting with the sender and its width/height pending and
\* writes nothing; with any other capture (or a portal that failed to start)
\* the readiness callback runs inside the dispatch, the only possible write
\* is one stream_start to the sender with the requested width/height, and the
\* stream is Streaming with nothing pending.  A stream_start is only ever
\* written by the readiness callback.
C3_DeferredOnlyForPortal ==
  /\ (last.op = "request_stream" /\ has_streamer /\ last.pre = "Idle"
        /\ last.env.bindOk)
       => /\ last.resp = NoResponse
          /\ IF streamer.capture_method = "portal"
             THEN /\ StreamState = "Starting"
                  /\ pending_stream_client = last.conn
                  /\ pending_stream_params = PendingParams(last.cmd)
                  /\ writes = <<>>
             ELSE /\ StreamState = "Streaming"
                  /\ pending_stream_client = None
                  /\ pending_stream_params = NoParams
                  /\ writes = IF last.env.netOk
                              THEN <<[to |-> last.conn, kind |-> "callback",
                                      msg |-> StreamStart(PendingParams(last.cmd))]>>
                              ELSE <<>>
  /\ \A i \in StreamStarts :
       /\ writes[i].kind = "callback"
       /\ last.op \in {"request_stream", "on_stream_ready"}

C3_Witness ==
  /\ last.op = "request_stream" /\ has_streamer /\ last.pre = "Idle"
  /\ last.env.bindOk
  /\ StreamState = "Starting"
  /\ pending_stream_client = last.conn

\* C4: when the pending requester disconnects while the stream is Starting,
\* the pending request is cleared and the portal capture stopped, the stream
\* is Idle, and while no accepted request is outstanding (none yet, or the
\* last one cancelled this way) no stream_start is written.
C4_DisconnectCancels ==
  /\ (last.op = "disconnect" /\ last.pre = "Starting" /\ last.own)
       => /\ StreamState = "Idle"
          /\ pending_stream_client = None
          /\ pending_stream_params = NoParams
          /\ streamer.portal = "stopped"
  /\ requester = None => StreamStarts = {}

C4_Witness ==
  /\ last.op = "disconnect" /\ last.pre = "Starting" /\ last.own
  /\ requester = None

\* C5: after a stop_stream handled from Starting or Streaming the stream is
\* not streaming, the portal capture is stopped, the pending request is empty,
\* the frame buffer is empty, and the response is stream_stop(success=true).
C5_StopClearsAll ==
  (last.op = "stop_stream" /\ last.pre \in NotIdle)
    => /\ ~streamer.streaming
       /\ streamer.portal \notin {"negotiating", "ready"}
       /\ pending_stream_client = None
       /\ pending_stream_params = NoParams
       /\ streamer.frame_buffer = None
       /\ last.resp = StreamStop

\* C6: a layout_preview is answered with ack(success=true) whatever happens to
\* the forward; with no primary nothing is forwarded; with an open primary and
\* a successful write exactly the dispatched message is written to the primary.
C6_PreviewForwardedVerbatim ==
  last.op = "layout_preview"
    => /\ last.resp = Ack(TRUE)
       /\ writes # <<>>
       /\ writes[Len(writes)] = [to |-> last.conn, kind |-> "response",
                                 msg |-> Ack(TRUE)]
       /\ android_client = None => Forwards = {}
       /\ (android_client # None /\ sock[android_client] = "open" /\ last.env.netOk)
            => writes[1] = [to |-> android_client, kind |-> "forward",
                            msg |-> last.cmd]
       /\ \A i \in Forwards : writes[i].msg = last.cmd

C6_Witness ==
  /\ last.op = "layout_preview"
  /\ android_client # None
  /\ Forwards # {}
  /\ writes[1].msg = last.cmd

\* C7: a forwarded message is written only by the dispatch of layout_preview
\* or set_layout, only once, only to the primary, and it is that dispatch's
\* own message: nothing is broadcast and nothing is kept for later.
C7_ForwardOnlyToPrimary ==
  /\ Cardinality(Forwards) <= 1
  /\ \A i \in Forwards :
       /\ writes[i].to = android_client
       /\ last.op \in {"layout_preview", "set_layout"}
       /\ writes[i].msg = IF last.op = "layout_preview" THEN last.cmd
                          ELSE [type |-> "set_layout", layout |-> LayoutOf(last.cmd)]

C7_Witness ==
  /\ last.op = "set_layout"
  /\ Forwards # {}
  /\ \E c \in Conn : sock[c] = "open" /\ c # android_client

\* C8: the primary is the connection that most recently sent device_info, and
\* every forward goes to it, never to an earlier sender.
C8_PrimaryIsLatestSender ==
  /\ android_client = device_sender.latest
  /\ \A i \in Forwards :
       writes[i].to = device_sender.latest /\ writes[i].to # device_sender.earlier

C8_Witness ==
  /\ device_sender.earlier # None
  /\ sock[device_sender.earlier] = "open"
  /\ Forwards # {}

\* C9: when the primary connection closes the primary reference is cleared,
\* and until a new device_info arrives nothing is forwarded.
C9_PrimaryClearedOnClose ==
  /\ (last.op = "disconnect" /\ last.conn = device_sender.latest)
       => android_client = None
  /\ (device_sender.latest # None /\ sock[device_sender.latest] = "closed")
       => Forwards = {}

\* C10: a get_layout whose most recent layout writer is a set_layout carrying
\* the layout L returns a layout message whose controls are L.
C10_SetThenGet ==
  (last.op = "get_layout" /\ layout_writer.type = "set_layout"
     /\ "layout" \in DOMAIN layout_writer)
    => last.resp = [type |-> "layout", controls |-> layout_writer.layout]

C10_Witness ==
  /\ last.op = "get_layout"
  /\ layout_writer.type = "set_layout"
  /\ "layout" \in DOMAIN layout_writer
  /\ layout_writer.layout = LayoutB
  /\ last.resp.controls = LayoutB

Button_(command) == Get(command, "button", NoValue)
Action_(command) == Get(command, "action", NoValue)
Presses(cs) == {i \in DOMAIN cs : cs[i].action = "press"}
Releases(cs) == {i \in DOMAIN cs : cs[i].action = "release"}

\* C11: for every button id of the key map, a press message followed by a
\* release message for the same id makes exactly two injector calls, a press
\* and then a release, both of the key the map gives that id.
C11_PressThenRelease ==
  [][(/\ last.op = "button" /\ last'.op = "button"
      /\ Button_(last.cmd) \in DOMAIN KEY_MAP
      /\ Button_(last'.cmd) = Button_(last.cmd)
      /\ Action_(last.cmd) = "press" /\ Action_(last'.cmd) = "release")
       => /\ Len(calls) = 1 /\ Len(calls') = 1
          /\ calls[1].key = KEY_MAP[Button_(last.cmd)]
          /\ calls[1].action = "press"
          /\ calls'[1].key = KEY_MAP[Button_(last.cmd)]
          /\ calls'[1].action = "release"]_vars

C11_Witness ==
  /\ last.op = "button"
  /\ Button_(last.cmd) = "l" /\ Action_(last.cmd) = "release"
  /\ calls = <<[key |-> "q", action |-> "release", ok |-> TRUE]>>
  /\ "z" \in keys_down

\* C12: a button message whose id is not in the key map, or that has no id,
\* makes no injector call and is answered with an error, whatever its action.
C12_UnknownButton ==
  (last.op = "button" /\ Button_(last.cmd) \notin DOMAIN KEY_MAP)
    => /\ calls = <<>>
       /\ last.resp.type = "error"
       /\ writes = <<[to |-> last.conn, kind |-> "response", msg |-> last.resp]>>

C12_Witness ==
  /\ last.op = "button"
  /\ Button_(last.cmd) = "home" /\ Action_(last.cmd) = "press"
  /\ last.resp.type = "error"
  /\ keys_down # {}

\* the presses the claim gives an analog position (in tenths)
AnalogExpected(x, y) ==
  (IF y < -3 THEN {"i"} ELSE {}) \cup (IF y > 3 THEN {"k"} ELSE {})
    \cup (IF x < -3 THEN {"j"} ELSE {}) \cup (IF x > 3 THEN {"l"} ELSE {})

\* C13: an analog message makes four release calls first, one for each of the
\* keys i, k, j, l, and then one press for each direction beyond the strict
\* 0.3 deadzone of its axis (up iff y < -0.3, down iff y > 0.3, left iff
\* x < -0.3, right iff x > 0.3), at most one per axis, and is answered with
\* ack(success=true).
C13_AnalogCalls ==
  last.op = "analog"
    => LET x == Get(last.cmd, "x", 0)
           y == Get(last.cmd, "y", 0)
       IN /\ Len(calls) = 4 + Cardinality(AnalogExpected(x, y))
          /\ Releases(calls) = 1..4
          /\ {calls[i].key : i \in 1..4} = {"i", "k", "j", "l"}
          /\ {calls[i].key : i \in Presses(calls)} = AnalogExpected(x, y)
          /\ Cardinality(Presses(calls)) <= 2
          /\ ~({"i", "k"} \subseteq AnalogExpected(x, y))
          /\ ~({"j", "l"} \subseteq AnalogExpected(x, y))
          /\ last.resp = Ack(TRUE)

C13_Witness ==
  /\ last.op = "analog"
  /\ Get(last.cmd, "x", 0) = -5 /\ Get(last.cmd, "y", 0) = -5
  /\ Len(calls) = 6
  /\ {"i", "j"} \subseteq keys_down

\* the session state a message can touch, and the connection's own state
SessionUnchanged ==
  UNCHANGED <<android_client, device_info, current_layout, pending_stream_client,
              pending_stream_params, streamer, capture_threads, keys_down,
              sock, clients>>

\* C14 (as stated): a line that is not valid structured data is answered with
\* the error response whose message is "Invalid input"; the connection stays
\* open and no session state changes.
C14_InvalidInputMessage ==
  [][last'.op = "invalid_line"
       => /\ last'.resp = Error("Invalid input", NoValue)
          /\ writes' = <<[to |-> last'.conn, kind |-> "response", msg |-> last'.resp]>>
          /\ sock'[last'.conn] = "open" /\ last'.conn \in clients'
          /\ calls' = <<>>
          /\ SessionUnchanged]_vars

\* C14 (amended): a line that is not valid JSON is answered with the error
\* response whose message is "Invalid JSON"; the connection stays open and
\* registered, so its handler goes on to the next line, no injector call is
\* made and no session state changes.
C14_InvalidJsonMessage ==
  [][last'.op = "invalid_line"
       => /\ last'.resp = Error("Invalid JSON", NoValue)
          /\ writes' = <<[to |-> last'.conn, kind |-> "response", msg |-> last'.resp]>>
          /\ sock'[last'.conn] = "open" /\ last'.conn \in clients'
          /\ calls' = <<>>
          /\ SessionUnchanged]_vars

C14_Witness ==
  /\ last.op = "invalid_line" /\ last.conn = 2
  /\ android_client = 1
  /\ StreamState = "Starting" /\ pending_stream_client = 1
  /\ sock[2] = "open" /\ 2 \in clients

\* C15: a message whose type is none of the dispatcher's command types, or
\* that has no type, is answered with an error and changes nothing: device
\* info, layout, primary connection, pending stream request, the streamer and
\* the keys held are as before, and no injector call is made.
C15_UnknownNoEffect ==
  [][last'.op = "unknown"
       => /\ last'.resp.type = "error"
          /\ writes' = <<[to |-> last'.conn, kind |-> "response", msg |-> last'.resp]>>
          /\ calls' = <<>>
          /\ SessionUnchanged]_vars

C15_Witness ==
  /\ last.op = "unknown" /\ "type" \notin DOMAIN last.cmd
  /\ "button" \in DOMAIN last.cmd
  /\ android_client = 1 /\ device_info # NoDeviceInfo
  /\ StreamState = "Streaming"
  /\ keys_down = {}

\* C16: when a termination request has been served and the process exits, no
\* key is left pressed, also when handlers dispatch button or analog messages
\* while stop() runs.
C16_NoKeyLeftPressed ==
  stop_pc = "exited" => keys_down = {}

\* C17: on a termination request the keys are released before any socket is
\* closed, and at exit the control listener, every control connection and
\* the streaming listener are closed.
C17_ReleaseThenClose ==
  /\ (server_socket = "closed" \/ \E c \in Conn : sock[c] = "closed")
       => stop_pc \in {"released", "exited"}
  /\ stop_pc = "exited"
       => /\ server_socket = "closed"
          /\ \A c \in Conn : sock[c] # "open"
          /\ ~streamer.listening

\* the request_stream just dispatched found the stream Idle and its start failed
StartFailed(l, pre) ==
  l.op = "request_stream" /\ has_streamer /\ pre = "Idle" /\ ~l.env.bindOk

\* C18: when start fails for a request_stream, the requester is answered
\* with stream_error and the session is Idle again: nothing is pending, the
\* streamer is neither streaming nor listening, no capture loop was started,
\* and the next request_stream whose start succeeds is accepted as from Idle.
C18_StartFailureBackToIdle ==
  [][/\ StartFailed(last', StreamState)
          => /\ last'.resp = StreamError("Failed to start stream")
             /\ writes' = <<[to |-> last'.conn, kind |-> "response", msg |-> last'.resp]>>
             /\ StreamState' = "Idle"
             /\ pending_stream_client' = None /\ pending_stream_params' = NoParams
             /\ ~streamer'.streaming /\ ~streamer'.listening
             /\ capture_threads' = capture_threads
     /\ (StartFailed(last, last.pre) /\ last'.op = "request_stream" /\ last'.env.bindOk)
          => /\ last'.resp = NoResponse
             /\ streamer'.streaming
             /\ requester' = last'.conn
             /\ streamer'.target_width = RequestParams(last'.cmd).width]_vars

C18_Witness ==
  /\ StartFailed(last, last.pre)
  /\ last.resp = StreamError("Failed to start stream")
  /\ streamer.target_width = 480
  /\ StreamState = "Idle"

\* C19: when a connection that is neither the primary nor the stream
\* requester closes, the primary reference, the pending stream request and
\* the stream state of the other connections are unchanged.
C19_DisconnectOwnCleanupOnly ==
  [][(/\ last'.op = "disconnect"
      /\ last'.conn # android_client
      /\ last'.conn # pending_stream_client
      /\ last'.conn # requester)
       => /\ android_client' = android_client
          /\ pending_stream_client' = pending_stream_client
          /\ pending_stream_params' = pending_stream_params
          /\ StreamState' = StreamState]_vars

\* the answer the claim gives get_device_info after the device_info message m
DeviceInfoExpected(m) ==
  IF m = NoCommand
  THEN [type |-> "device_info", width |-> 1920, height |-> 1080, density |-> 275]
  ELSE [type |-> "device_info",
        width |-> IF "width" \in DOMAIN m THEN m.width ELSE 1920,
        height |-> IF "height" \in DOMAIN m THEN m.height ELSE 1080,
        density |-> IF "density" \in DOMAIN m THEN m.density ELSE 275]

\* C20: get_device_info returns exactly the width, height and density of the
\* most recent device_info message, a field missing from that message taking
\* its default and not the value stored before, and 1920, 1080, 2.75 when no
\* device_info was ever received.
C20_DeviceInfoWholesale ==
  last.op = "get_device_info"
    => /\ last.resp = DeviceInfoExpected(device_sender.cmd)
       /\ writes = <<[to |-> last.conn, kind |-> "response", msg |-> last.resp]>>

C20_Witness ==
  /\ last.op = "get_device_info"
  /\ device_sender.cmd = [type |-> "device_info", width |-> 800]
  /\ device_sender.earlier # None
  /\ last.resp.height = 1080 /\ last.resp.density = 275

\* C21: a failure of the injector on a button message is not fatal: the
\* sender is answered ack with success false, no key changes state, the
\* connection stays open and registered, and the next button message of the
\* same connection is dispatched as usual.
InjectorFailed(cs) == cs # <<>> /\ ~cs[1].ok
C21_InjectorFailureNotFatal ==
  [][/\ (last'.op = "button" /\ InjectorFailed(calls')) =>
          /\ last'.resp = Ack(FALSE)
          /\ writes' = Send(last'.conn, "response", Ack(FALSE), TRUE)
          /\ keys_down' = keys_down
          /\ sock' = sock /\ sock'[last'.conn] = "open"
          /\ clients' = clients /\ last'.conn \in clients'
     /\ (/\ last.op = "button" /\ InjectorFailed(calls)
         /\ last'.op = "button" /\ last'.conn = last.conn
         /\ calls' # <<>> /\ calls'[1].ok) =>
          /\ last'.resp = Ack(TRUE)
          /\ calls'[1].key = KEY_MAP[Button_(last'.cmd)]
          /\ keys_down' = KeysAfter(keys_down, calls')
          /\ writes' = Send(last'.conn, "response", Ack(TRUE), TRUE)]_vars

\* a release failed while the key was held: the key is still down and the
\* connection is open
C21_Witness ==
  /\ last.op = "button" /\ InjectorFailed(calls)
  /\ calls[1].action = "release" /\ calls[1].key \in keys_down
  /\ last.resp = Ack(FALSE)
  /\ sock[last.conn] = "open"

\* C22: the pending stream request is set only while the stream is Starting:
\* whenever no readiness callback is under way and the stream is Idle or
\* Streaming, the pending requester and the pending parameters are empty.
C22_PendingOnlyWhileStarting ==
  (callback.pc = "idle" /\ StreamState # "Starting")
    => (pending_stream_client = None /\ pending_stream_params = NoParams)

\* C23: the primary reference is empty or names a connection that is open
\* and registered in the live-connection set.
C23_PrimaryIsLive ==
  android_client # None
    => (sock[android_client] = "open" /\ android_client \in clients)

\* C24: once the stop_stream of a request has been answered, or its requester
\* has disconnected while it was pending, no stream_start is written.
C24_NoStartAfterCancel ==
  requester \in {None, Stopped} => StreamStarts = {}

\* C29: the capture loop publishes only while the stream is Streaming: a
\* step that writes a frame into the frame buffer starts in state Streaming,
\* never in Idle (before a start or after a stop) or in Starting.
C29_CaptureOnlyWhileStreaming ==
  [][streamer'.frame_buffer # streamer.frame_buffer
       => StreamState = "Streaming"]_vars

\* C25: every read and write of the device info, the layout, the primary
\* reference and the pending stream request, by a handler or by the readiness
\* callback, is made while the thread holds one and the same lock: the
\* server's only lock, clients_lock, which the device_info branch takes.
SessionFields ==
  {"device_info", "current_layout", "android_client",
   "pending_stream_client", "pending_stream_params"}
SessionLock == "clients_lock"
AtSessionAccess(t) ==
  Active(t) /\ Cur(t).op \in {"read", "write"} /\ Cur(t).what \in SessionFields
C25_SessionUnderOneLock ==
  \A t \in Threads : AtSessionAccess(t) => SessionLock \in HeldBy(t)

\* C26: a thread that performs a network write holds no lock.
AtSend(t) == Active(t) /\ Cur(t).op = "send"
C26_NoLockAcrossWrite ==
  \A t \in Threads : AtSend(t) => HeldBy(t) = {}

\* the viewer's sender writes a frame while a handler is inside clients_lock,
\* and a handler is blocked in a send while the frame lock is taken
C26_Witness ==
  \/ /\ AtSend(ViewerThread) /\ thread[ViewerThread].pc > 1
     /\ \E t \in Conn : locks["clients_lock"] = t
  \/ /\ \E t \in Conn : thread[t].blocked # None
     /\ locks["frame_lock"] = ViewerThread

\* C27: the handler of a connection is never blocked in a write to the socket
\* of a different connection.
C27_NoBlockingOnOtherConnection ==
  \A t \in Conn : thread[t].blocked \in {None, t}

\* C28: the messages of a connection are dispatched in the order their lines
\* arrived, the response of each is written before the next line is
\* dispatched, and the responses are in request order.
RECURSIVE LinesFrom(_, _)
LinesFrom(b, start) ==
  IF \E i \in start..Len(b) : b[i] = "\n"
  THEN LET i == CHOOSE k \in start..Len(b) :
                  b[k] = "\n" /\ \A j \in start..(k - 1) : b[j] # "\n"
       IN <<SubSeq(b, start, i - 1)>> \o LinesFrom(b, i + 1)
  ELSE <<>>
NonBlank(l) == l # <<>>
SentLines(b) ==
  SelectSeq([i \in DOMAIN LinesFrom(b, 1) |-> Strip(LinesFrom(b, 1)[i])],
            NonBlank)
IsPrefix(s, t) == Len(s) <= Len(t) /\ s = SubSeq(t, 1, Len(s))
C28_OrderPreserved ==
  \A c \in Conn :
    /\ IsPrefix(wire[c].dispatched, SentLines(Decode(wire[c].arrived)))
    /\ wire[c].responses =
         [i \in 1..Len(wire[c].responses) |-> HandleLine(wire[c].dispatched[i])]
    /\ Len(wire[c].responses) =
         Len(wire[c].dispatched) - (IF reader[c].pc = "send" THEN 1 ELSE 0)

\* a ping and a line that is not JSON were answered, in that order
C28_Witness ==
  /\ wire[1].dispatched = << <<"p">>, <<"x">> >>
  /\ wire[1].responses = <<[type |-> "pong"], InvalidLineResponse>>

\* C30: a write failure on one viewer ends only the sender loop of that
\* viewer and removes only that viewer from the viewer set: the step in which
\* the write fails and the finally block that follows leave every other
\* viewer, the streamer and the capture loop as they were, and a viewer that
\* ended is not in the set.
C30_ViewerFailureIsLocal ==
  [][\A v \in Viewers :
       /\ (viewer[v].pc \in {"headers", "loop"} /\ viewer'[v].pc = "finally"
           /\ viewer'[v].failed /\ ~viewer[v].failed) =>
            /\ \A w \in Viewers \ {v} : viewer'[w] = viewer[w]
            /\ stream_clients' = stream_clients
            /\ streamer' = streamer
            /\ capture_threads' = capture_threads
       /\ (viewer[v].pc = "finally" /\ viewer'[v].pc = "done") =>
            /\ stream_clients' = stream_clients \ {v}
            /\ ~viewer'[v].open
            /\ \A w \in Viewers \ {v} : viewer'[w] = viewer[w]
            /\ streamer' = streamer
            /\ capture_threads' = capture_threads]_vars

\* viewer 1 failed before it got a frame and is gone; viewer 2 is still in the
\* set, the capture loop has published a frame and viewer 2 has received it
C30_Witness ==
  /\ viewer[1].pc = "done" /\ viewer[1].failed /\ viewer[1].last = None
  /\ 1 \notin stream_clients /\ 2 \in stream_clients
  /\ streamer.streaming /\ streamer.frame_buffer # None
  /\ viewer[2].pc = "loop" /\ viewer[2].open
  /\ viewer[2].last = streamer.frame_buffer
  /\ last.op = "send_frame"

\* C38: a button message with a known id is answered ack with success true
\* only if exactly one key event, a key-down or a key-up of the mapped key,
\* was injected, whatever the action field holds.
C38_AckMeansOneKeyEvent ==
  (last.op = "button" /\ Button_(last.cmd) \in DOMAIN KEY_MAP
     /\ last.resp = Ack(TRUE))
    => /\ Len(calls) = 1
       /\ calls[1].ok
       /\ calls[1].key = KEY_MAP[Button_(last.cmd)]
       /\ calls[1].action \in {"press", "release"}

\* C34: the width and the height of every stream_start written are the
\* target width and height the running stream was started with.
C34_StartReportsTargetSize ==
  \A i \in StreamStarts :
    /\ writes[i].msg.width = streamer.target_width
    /\ writes[i].msg.height = streamer.target_height

\* C33: a request_stream that was accepted without an immediate response is
\* eventually resolved for its sender: as long as the sender stays connected
\* and nobody stops the stream, a stream_start or a stream_error is written to
\* it, also when the portal denies or fails after start returned success.
Unresolved(c) ==
  /\ last.op = "request_stream" /\ last.conn = c
  /\ last.resp = NoResponse /\ writes = <<>>
Resolved(c) ==
  \E i \in DOMAIN writes :
    /\ writes[i].to = c
    /\ writes[i].msg.type \in {"stream_start", "stream_error"}
C33_RequestResolved == \A c \in Conn : Unresolved(c) ~> Resolved(c)

\* C36: the messages dispatched for a connection are the non-blank lines of
\* the text it sent, however the bytes were cut into chunks and whatever
\* timeouts came between them: the lines dispatched so far, followed by the
\* complete lines still in the buffer, are the complete non-blank lines of
\* the bytes that arrived, and an unterminated tail is not among them.
C36_FramingIgnoresChunks ==
  \A c \in Conn :
    wire[c].dispatched \o SentLines(reader[c].buffer)
      = SentLines(Decode(wire[c].arrived))

\* C31: a read timeout is no deadline. The step of a timeout leaves the
\* connection open and in the client list, its buffer and what it has
\* dispatched as they were, and the handler back at recv; and as long as the
\* handler is in its loop, whatever the number of timeouts, the lines
\* dispatched and the complete lines of the buffer are the lines that
\* arrived, so that a line held at a timeout is dispatched once its newline
\* is there.
TimedOut(c) == reader'[c].timeouts # reader[c].timeouts
C31_TimeoutIsNoDeadline ==
  /\ [][\A c \in Conn :
          TimedOut(c) => /\ sock'[c] = "open"
                         /\ c \in clients'
                         /\ reader'[c].buffer = reader[c].buffer
                         /\ reader'[c].pc = "recv"
                         /\ wire'[c] = wire[c]]_vars
  /\ [](\A c \in Conn :
          (sock[c] = "open" /\ reader[c].pc # "except") =>
            wire[c].dispatched \o SentLines(reader[c].buffer)
              = SentLines(Decode(wire[c].arrived)))

\* the first half of a line was in the buffer at two timeouts, and the line
\* was dispatched after its second half and its newline arrived
C31_Witness ==
  /\ reader[1].timeouts = MaxTimeouts
  /\ reader[1].held = <<"x">>
  /\ wire[1].dispatched = << <<"x", "p">> >>
  /\ sock[1] = "open" /\ 1 \in clients

\* C39: the frames written to a viewer are in publish order, none older
\* than one it was sent before, and none is the frame an earlier session
\* left behind when it was stopped.
C39_FramesFreshAndOrdered ==
  [][\A v \in Viewers :
       viewer'[v].last # viewer[v].last =>
         /\ viewer'[v].last > viewer[v].last
         /\ viewer'[v].last # stale_frame']_vars

\* C32: whatever the sequence of starts and stops, at most one capture loop
\* is alive, so that no loop of a stopped session goes on in a later one.
C32_OneCaptureLoop ==
  capture_threads.check + capture_threads.body <= 1

\* C35: every message written to a control connection arrives there as one
\* whole line, whoever wrote it: the connection's own handler or the handler
\* of another connection that forwards to it.
C35_WholeLines ==
  \A c \in Conn : truncated[c] = None

\* C37: the dispatch of a line always returns: it returns no response for
\* a request_stream whose start succeeded and one response for every other
\* line, also for a line on which the body raises, and that response is the
\* one write of the handler to its connection.
DispatchOps ==
  {"ping", "button", "analog", "device_info", "get_device_info",
   "get_layout", "current_layout", "layout_update", "layout_preview",
   "set_layout", "request_stream", "stop_stream", "refresh_stream",
   "stream_status", "unknown", "invalid_line", "raises"}
StartSucceeded ==
  last.op = "request_stream" /\ has_streamer /\ last.env.bindOk
Responses == {i \in DOMAIN writes : writes[i].kind = "response"}
C37_DispatchTotal ==
  last.op \in DispatchOps =>
    /\ last.resp = NoResponse <=> StartSucceeded
    /\ IF last.resp = NoResponse THEN Responses = {}
       ELSE /\ Cardinality(Responses) = 1
            /\ \A i \in Responses :
                 /\ i = Len(writes)
                 /\ writes[i].to = last.conn
                 /\ writes[i].msg = last.resp

\* a JSON value that is not an object was answered with the error
C37_Witness ==
  /\ last.op = "raises"
  /\ last.cmd.text = "[1]"
  /\ last.resp = Error("'list' object has no attribute 'get'", NoValue)
  /\ writes = <<[to |-> 1, kind |-> "response", msg |-> last.resp]>>

\* C40: an undo that takes back an action, followed at once by a redo,
\* leaves the canvas layout as it was before the undo, whatever settings
\* changes, drags, replacements of the layout, undos and redos came before.
C40_UndoRedoRestores ==
  [][(editor.op = "undo" /\ editor'.op = "redo")
       => editor'.layout_data = editor.before]_vars

(* --------------------------- specifications ---------------------------- *)
\* the relay: connections, device info, layout and forwarding
NextRelay ==
  \/ \E c \in Conn : Connect(c)
  \/ \E c \in Conn : Disconnect(c)
  \/ \E c \in Conn, command \in DeviceInfoCmds : DeviceInfo(c, command)
  \/ \E c \in Conn : GetLayout(c)
  \/ \E c \in Conn : GetDeviceInfo(c)
  \/ \E c \in Conn, command \in CurrentLayoutCmds : CurrentLayout(c, command)
  \/ \E c \in Conn, command \in LayoutUpdateCmds : LayoutUpdate(c, command)
  \/ \E c \in Conn, command \in LayoutPreviewCmds, netOk \in BOOLEAN :
       LayoutPreview(c, command, netOk)
  \/ \E c \in Conn, command \in SetLayoutCmds, netOk \in BOOLEAN :
       SetLayout(c, command, netOk)

SpecRelay == Init /\ [][NextRelay]_vars

\* the stream: connections, request_stream/stop_stream, the readiness
\* callback and the capture loop
NextStream ==
  \/ \E c \in Conn : Connect(c)
  \/ \E c \in Conn : Disconnect(c)
  \/ \E c \in Conn, command \in RequestStreamCmds, bindOk \in BindOutcomes :
       \E portalOk \in PortalOutcomes(bindOk) :
         \E netOk \in ReadyWriteOutcomes(bindOk, portalOk) :
           RequestStream(c, command, bindOk, portalOk, netOk)
  \/ \E c \in Conn : StopStream(c)
  \/ PortalReady
  \/ \E netOk \in CallbackWriteOutcomes : OnStreamReadySend(netOk)
  \/ PortalDenied
  \/ CaptureCheck
  \/ \E got \in BOOLEAN : CaptureBody(got)

SpecStream == Init /\ [][NextStream]_vars

\* the state once the first connection is accepted, with a portal streamer
InitConnected ==
  /\ sock = [c \in Conn |-> IF c = 1 THEN "open" ELSE "new"]
  /\ clients = {1}
  /\ android_client = None
  /\ device_info = NoDeviceInfo
  /\ current_layout = NoLayout
  /\ pending_stream_client = None
  /\ pending_stream_params = NoParams
  /\ has_streamer = TRUE
  /\ streamer = StreamerInit("portal")
  /\ capture_threads = [check |-> 0, body |-> 0]
  /\ source_frames = 0
  /\ callback = [pc |-> "idle", params |-> NoParams]
  /\ last = [Step("init") EXCEPT !.op = "connect", !.conn = 1, !.pre = "Idle"]
  /\ writes = <<>>
  /\ requester = None
  /\ layout_writer = NoCommand
  /\ device_sender = [latest |-> None, earlier |-> None, cmd |-> NoCommand]
  /\ running = TRUE
  /\ server_socket = "listening"
  /\ stop_pc = "none"
  /\ draining = {}
  /\ keys_down = {}
  /\ calls = <<>>
  /\ ThreadsInit
  /\ ReaderInit
  /\ ViewersInit
  /\ EditorInit

\* button messages on one connection
NextButton ==
  \/ \E c \in Conn, command \in ButtonCmds :
       \E injOk \in InjectorOutcomes(command) : Button(c, command, injOk)
  \/ \E c \in Conn : Ping(c)

SpecButton == InitConnected /\ [][NextButton]_vars

\* analog messages on one connection, with the buttons of two analog keys
\* and of one other key
NextAnalog ==
  \/ \E c \in Conn, command \in AnalogCmds : Analog(c, command)
  \/ \E c \in Conn, b \in {"analog_up", "analog_right", "x"}, a \in {"press", "release"} :
       Button(c, [type |-> "button", button |-> b, action |-> a], TRUE)

SpecAnalog == InitConnected /\ [][NextAnalog]_vars

\* the dispatcher's error branches on every connection, among messages of
\* every other group sent by the first connection: a device_info, a layout, a
\* stream request with its callback, a button
NextDispatch ==
  \/ \E c \in Conn : Connect(c)
  \/ \E command \in DeviceInfoCmds : DeviceInfo(1, command)
  \/ CurrentLayout(1, [type |-> "current_layout", controls |-> LayoutA])
  \/ \E command \in RequestStreamCmds, bindOk \in BindOutcomes :
       \E portalOk \in PortalOutcomes(bindOk) :
         \E netOk \in ReadyWriteOutcomes(bindOk, portalOk) :
           RequestStream(1, command, bindOk, portalOk, netOk)
  \/ StopStream(1)
  \/ PortalReady
  \/ \E netOk \in CallbackWriteOutcomes : OnStreamReadySend(netOk)
  \/ \E a \in {"press", "release"} :
       Button(1, [type |-> "button", button |-> "x", action |-> a], TRUE)
  \/ \E c \in Conn, line \in InvalidLines : InvalidLine(c, line)
  \/ \E c \in Conn, command \in UnknownCmds : Unknown(c, command)

SpecDispatch == InitConnected /\ [][NextDispatch]_vars

\* a termination request among button and analog messages: stop() and the
\* exit, the handlers that still hold a line, one stream request
NextShutdown ==
  \/ \E c \in Conn : Connect(c)
  \/ \E c \in Conn, b \in {"x", "start"}, a \in {"press", "release"} :
       Button(c, [type |-> "button", button |-> b, action |-> a], TRUE)
  \/ \E c \in Conn, command \in {[type |-> "analog", x |-> 5, y |-> 0],
                                  [type |-> "analog", x |-> -5, y |-> -5],
                                  [type |-> "analog"]} :
       Analog(c, command)
  \/ RequestStream(1, [type |-> "request_stream"], TRUE, TRUE, TRUE)
  \/ \E held \in SUBSET Conn : StopClose(held)
  \/ StopRelease
  \/ Exit

SpecShutdown == InitConnected /\ [][NextShutdown]_vars


\* the threads of the server, step by step: connection 1 sends every message
\* type, every connection sends device_info
NextThreads ==
  \/ \E t \in Conn : HandlerStart(t)
  \/ \E t \in Conn : Begin(t, "device_info")
  \/ \E p \in HandlerPrograms : Begin(1, p)
  \/ Begin(PortalThread, "on_stream_ready")
  \/ Begin(ViewerThread, "stream_to_client")
  \/ \E t \in Threads : ThreadStep(t)
  \/ LoopBack(ViewerThread)
  \/ \E t \in Conn : SendBlocks(t)

SpecThreads == InitConnected /\ [][NextThreads]_vars


\* the read loop of the connections
NextLines ==
  \/ \E c \in Conn :
       /\ sock[c] = "open" /\ reader[c].pc = "recv"
       /\ Len(wire[c].arrived) < MaxRecv
       /\ \E chunk \in Chunks : Recv(c, chunk)
  \/ \E c \in Conn : NextLine(c)
  \/ \E c \in Conn : SendResponse(c)
  \/ \E c \in Conn : RecvTimeout(c)
  \/ \E c \in Conn : ReaderExit(c)

SpecLines == InitConnected /\ [][NextLines]_vars


\* the stream port: a stream started with the mss capture, the capture loop,
\* the viewers and a stop
NextViewers ==
  \/ RequestStream(1, [type |-> "request_stream"], TRUE, FALSE, TRUE)
  \/ StopStream(1)
  \/ CaptureCheck
  \/ \E got \in BOOLEAN : CaptureBody(got)
  \/ \E v \in Viewers : AcceptClients(v)
  \/ \E v \in Viewers : \E netOk \in ViewerWriteOutcomes(v) :
       SendHeaders(v, netOk)
  \/ \E v \in Viewers : \E netOk \in ViewerWriteOutcomes(v) :
       SendFrame(v, netOk)
  \/ \E v \in Viewers : ViewerFinally(v)

SpecViewers == InitConnected /\ [][NextViewers]_vars


\* a stream requested by connection 1 that nobody stops: the portal answers,
\* the callback and the capture loop run, every thread gets its turn
NextResolve ==
  \/ \E c \in Conn : Connect(c)
  \/ \E command \in RequestStreamCmds, bindOk \in BindOutcomes :
       \E portalOk \in PortalOutcomes(bindOk) :
         RequestStream(1, command, bindOk, portalOk, TRUE)
  \/ PortalReady
  \/ PortalDenied
  \/ OnStreamReadySend(TRUE)
  \/ CaptureCheck
  \/ \E got \in BOOLEAN : CaptureBody(got)

SpecResolve ==
  /\ InitConnected
  /\ [][NextResolve]_vars
  /\ WF_vars(PortalReady \/ PortalDenied)
  /\ WF_vars(OnStreamReadySend(TRUE))
  /\ WF_vars(CaptureCheck)

\* starts and stops of the stream with up to MaxLoops capture loops alive: a
\* loop ends only at its own test of the streaming flag
NextLoops ==
  \/ \E command \in RequestStreamCmds, bindOk \in BindOutcomes :
       \E portalOk \in PortalOutcomes(bindOk) :
         RequestStreamCapped(1, command, bindOk, portalOk, TRUE, MaxLoops)
  \/ StopStream(1)
  \/ PortalReady
  \/ OnStreamReadySend(TRUE)
  \/ CaptureCheck
  \/ \E got \in BOOLEAN : CaptureBody(got)

SpecLoops == InitConnected /\ [][NextLoops]_vars
\* the threads, with writes that a full send buffer cuts short
NextWrites ==
  \/ NextThreads
  \/ \E t \in Conn : SendPart(t)

SpecWrites == InitConnected /\ [][NextWrites]_vars
\* every branch of handle_command, dispatched by connection 1
NextTotal ==
  \/ Ping(1)
  \/ \E a \in {"press", "release"} :
       Button(1, [type |-> "button", button |-> "x", action |-> a], TRUE)
  \/ Analog(1, [type |-> "analog", x |-> 5])
  \/ DeviceInfo(1, [type |-> "device_info", width |-> 800])
  \/ GetDeviceInfo(1)
  \/ GetLayout(1)
  \/ CurrentLayout(1, [type |-> "current_layout", controls |-> LayoutA])
  \/ LayoutUpdate(1, [type |-> "layout_update", layout |-> LayoutB])
  \/ \E command \in LayoutPreviewCmds : LayoutPreview(1, command, TRUE)
  \/ SetLayout(1, [type |-> "set_layout", layout |-> LayoutA], TRUE)
  \/ \E bindOk \in BindOutcomes :
       \E portalOk \in PortalOutcomes(bindOk) :
         RequestStream(1, [type |-> "request_stream"], bindOk, portalOk, TRUE)
  \/ StopStream(1)
  \/ RefreshStream(1)
  \/ StreamStatus(1)
  \/ \E line \in InvalidLines : InvalidLine(1, line)
  \/ \E command \in UnknownCmds : Unknown(1, command)
  \/ \E line \in RaisingLines : Raises(1, line)

SpecTotal == InitConnected /\ [][NextTotal]_vars
\* the layout editor: changes in the control panel, drags, presets, undo
\* and redo
NextEditor ==
  \/ \E control_id \in {"dpad", "analog"}, scale \in {80, 120} :
       on_settings_changed(control_id, [scale |-> scale])
  \/ \E control_id \in {"dpad", "analog"} : mouseMoveEvent(control_id, 50)
  \/ \E layout \in Presets : set_layout(layout)
  \/ undo
  \/ redo

SpecEditor == InitConnected /\ [][NextEditor]_vars
====
